---------------------------- MODULE Spec2Model ----------------------------
(***************************************************************************)
(* Model of the dataProc pipeline Clean -> Duration -> Sequence ->         *)
(* Critical (src/dataProc).  The working directory is the state; every     *)
(* stage invocation is one action.                                         *)
(*                                                                         *)
(* Conventions                                                             *)
(*   - An optional value (Python None / absent key) is the empty tuple     *)
(*     <<>>; a present value v is <<v>>.                                   *)
(*   - Lengths are integers counting tenths (0.1).  The bounding box in X  *)
(*     and Y is kept doubled (unit 0.05) so that Position -/+ Length/2 is  *)
(*     exact; Z is in tenths.  Ratios of areas do not depend on the unit.  *)
(*   - A text (layer name, Element Name, activity id) is a record of the   *)
(*     tokens the regular expressions of the code look at:                 *)
(*        id      leading token ("A", "B", ...)                            *)
(*        sp      0: the id is spelled in upper case, 1: in lower case     *)
(*        cwa     the code following "ASU-" ("" when the text has none)    *)
(*        install the text captured after "_Install_", "_" read as " "     *)
(*        civil   the token civil_works occurs                             *)
(*        set     the token following "_Set_" ("" when there is none)      *)
(***************************************************************************)
EXTENDS Integers, Sequences, FiniteSets, TLC

VARIABLES
    files,          \* working directory: artifact name -> <<>> | <<content>>
    archive,        \* archive/ directory: artifact kind -> newest copy, <<>> | <<content>>
    status,         \* outcome of the last request: "none", "ok", "404", "422", "500"
    last,           \* stage of the last request
    prev,           \* [files, archive] as they were before the last request
    project_finish, \* project finish computed by the last CPM pass
    pc,             \* concurrent requests: position of each request
    seen,           \* concurrent requests: what each request read from its source
    partial,        \* the artifacts opened for writing and not yet closed
    request         \* body of the last request that has one: <<>> | <<body>>

vars == <<files, archive, status, last, prev, project_finish, pc, seen, partial, request>>

None == <<>>
Some(v) == <<v>>
IsNone(o) == o = <<>>
Val(o) == o[1]

\* the value of the one element of a set {e}: e is evaluated before it is used, as
\* Python evaluates an argument before the call
Eval(S) == CHOOSE x \in S : TRUE

SetMax(S) == CHOOSE x \in S : \A y \in S : y <= x
SetMin(S) == CHOOSE x \in S : \A y \in S : x <= y

Max(a, b) == IF a >= b THEN a ELSE b
Min(a, b) == IF a <= b THEN a ELSE b
Abs(a) == IF a >= 0 THEN a ELSE -a

Range(s) == {s[k] : k \in DOMAIN s}

RECURSIVE SelectIdx(_, _, _)
\* the indices k of s, ascending, with keep[k]
SelectIdx(s, keep, k) ==
    IF k > Len(s) THEN <<>>
    ELSE IF keep[k] THEN <<k>> \o SelectIdx(s, keep, k + 1)
    ELSE SelectIdx(s, keep, k + 1)

RECURSIVE Flatten(_)
Flatten(ss) == IF ss = <<>> THEN <<>> ELSE Head(ss) \o Flatten(Tail(ss))

(***************************************************************************)
(* Texts                                                                   *)
(***************************************************************************)
Text(id, sp, cwa, install, civil, set) ==
    [id |-> id, sp |-> sp, cwa |-> cwa, install |-> install, civil |-> civil, set |-> set]

\* the ids in ascending code-point order
IdOrder == <<"A", "B", "C", "D", "E", "F">>

IdRank(id) == CHOOSE k \in DOMAIN IdOrder : IdOrder[k] = id

\* Python's str ordering of two texts of the catalogue: upper case sorts before
\* lower case, then by leading token (leading tokens are distinct in the catalogue)
StrKey(t) == t.sp * (Len(IdOrder) + 1) + IdRank(t.id)
StrLess(a, b) == StrKey(a) < StrKey(b)


(***************************************************************************)
(* Clean  (src/dataProc/services/clean_service.py)                         *)
(*                                                                         *)
(* A raw record: [Class, ItemLayer, ElementName, GUID, XCoordinate,        *)
(* YCoordinate, ZCoordinate, geom].  geom is <<>> when the record has no   *)
(* retained "AutoCAD Geometry." key, else <<g>> with g the coerced values  *)
(* [PositionX, PositionY, PositionZ, Height, Length, Width], each optional *)
(* (<<>> when the key is missing or its value does not parse).             *)
(***************************************************************************)
\* str(r.get("Category/Class", "")).strip().lower()
NormClass(c) ==
    CASE c \in {"Layer", "layer", " LAYER "} -> "layer"
      [] c \in {"3D Solid", "3d solid"} -> "3d solid"
      [] OTHER -> "other"

_extract_cwa(text) ==
    IF IsNone(text) THEN None
    ELSE IF Val(text).cwa = "" THEN None ELSE Some(Val(text).cwa)

\* rec.get("Item.Layer") or ... or rec.get("Element Name")
_layer_key_from_record(rec) ==
    IF ~IsNone(rec.ItemLayer) THEN rec.ItemLayer ELSE rec.ElementName

\* strip, lower, whitespace and underscore runs to one "_"
_norm_key(s) ==
    IF IsNone(s) THEN None ELSE Some([Val(s) EXCEPT !.sp = 1])

_collect_geometry(rec) == rec.geom

\* every record that is no 3D solid is taken for a layer
NotSolids(records) ==
    SelectIdx(records, [k \in DOMAIN records |-> NormClass(records[k].Class) # "3d solid"], 1)

Layers(records) ==
    SelectIdx(records, [k \in DOMAIN records |-> NormClass(records[k].Class) = "layer"], 1)

Solids(records) ==
    SelectIdx(records, [k \in DOMAIN records |-> NormClass(records[k].Class) = "3d solid"], 1)

\* solids_by_layer.get(key, []): the solids with that normalized key, in input order
MatchedSolids(records, sol, key) ==
    SelectIdx(sol, [k \in DOMAIN sol |->
                       _norm_key(_layer_key_from_record(records[sol[k]])) = key
                       /\ ~IsNone(key)], 1)

RECURSIVE FirstGeom(_, _, _, _)
\* for s in matched_solids: first_geom = _collect_geometry(s); if first_geom: break
FirstGeom(records, sol, matched, k) ==
    IF k > Len(matched) THEN None
    ELSE IF ~IsNone(_collect_geometry(records[sol[matched[k]]]))
    THEN _collect_geometry(records[sol[matched[k]]])
    ELSE FirstGeom(records, sol, matched, k + 1)

NoGeometry ==
    [PositionX |-> None, PositionY |-> None, PositionZ |-> None,
     Height |-> None, Length |-> None, Width |-> None]

\* the output record of a layer, from its CWA and the geometry of its first solid
CleanRecord(layer, cwa, g) ==
    [ElementName |-> layer.ElementName,
     CWA |-> cwa,
     GUID |-> layer.GUID,
     XCoordinate |-> layer.XCoordinate,
     YCoordinate |-> layer.YCoordinate,
     ZCoordinate |-> layer.ZCoordinate,
     PositionX |-> g.PositionX, PositionY |-> g.PositionY, PositionZ |-> g.PositionZ,
     Height |-> g.Height, Length |-> g.Length, Width |-> g.Width,
     Volume |-> IF ~IsNone(g.Height) /\ ~IsNone(g.Length) /\ ~IsNone(g.Width)
                THEN Some(Val(g.Height) * Val(g.Length) * Val(g.Width)) ELSE None,
     \* doubled: 2 * (px - l/2), 2 * (px + l/2)
     MinOfMinX |-> IF ~IsNone(g.PositionX) /\ ~IsNone(g.Length)
                   THEN Some(2 * Val(g.PositionX) - Val(g.Length)) ELSE None,
     MaxOfMaxX |-> IF ~IsNone(g.PositionX) /\ ~IsNone(g.Length)
                   THEN Some(2 * Val(g.PositionX) + Val(g.Length)) ELSE None,
     MinOfMinY |-> IF ~IsNone(g.PositionY) /\ ~IsNone(g.Width)
                   THEN Some(2 * Val(g.PositionY) - Val(g.Width)) ELSE None,
     MaxOfMaxY |-> IF ~IsNone(g.PositionY) /\ ~IsNone(g.Width)
                   THEN Some(2 * Val(g.PositionY) + Val(g.Width)) ELSE None,
     MinOfMinZ |-> IF ~IsNone(g.PositionZ) /\ ~IsNone(g.Height)
                   THEN Some(Val(g.PositionZ)) ELSE None,
     MaxOfMaxZ |-> IF ~IsNone(g.PositionZ) /\ ~IsNone(g.Height)
                   THEN Some(Val(g.PositionZ) + Val(g.Height)) ELSE None]

\* _extract_cwa(layer_name) or _extract_cwa(layer.get("Element Name"))
LayerCwa(layer) ==
    IF ~IsNone(_extract_cwa(_layer_key_from_record(layer)))
    THEN _extract_cwa(_layer_key_from_record(layer))
    ELSE _extract_cwa(layer.ElementName)

GeomOr(fg) == IF IsNone(fg) THEN NoGeometry ELSE Val(fg)

CleanLayer(records, sol, layer) ==
    CleanRecord(layer, LayerCwa(layer),
        GeomOr(FirstGeom(records, sol,
                   MatchedSolids(records, sol, _norm_key(_layer_key_from_record(layer))), 1)))

CleanLayers(records, layers, sol) ==
    [k \in DOMAIN layers |-> CleanLayer(records, sol, records[layers[k]])]

clean_data(records) == CleanLayers(records, Layers(records), Solids(records))

(***************************************************************************)
(* Duration  (src/dataProc/services/duration_service.py)                   *)
(*                                                                         *)
(* Real numbers are kept exact: base days doubled, duration bounds times   *)
(* four, exponents as a fraction <<p, q>>, a metric in its own unit        *)
(* (volume 0.001, area 0.01, run and height 0.1) and a median doubled.     *)
(***************************************************************************)
_extract_activity_type(name) ==
    IF IsNone(name) THEN ""
    ELSE IF Val(name).install # "" THEN Val(name).install
    ELSE IF Val(name).civil THEN "Civil Works"
    ELSE IF Val(name).set # "" THEN "Equipment"
    ELSE ""

_is_set_activity(name) == ~IsNone(name) /\ Val(name).set # ""

InstallTypes ==
    {"Concrete", "Grout", "Piling", "Cable Tray", "Electrical", "Instrumentation",
     "Piping", "Piping Insulation", "UG Conduit", "Transformer", "Civil Works"}

\* INSTALL_EXPONENTS.get(t): <<>> or <<p, q>> for the exponent p/q
INSTALL_EXPONENTS(t) ==
    CASE t = "Concrete" -> <<9, 10>>
      [] t = "Grout" -> <<4, 5>>
      [] t = "Piling" -> <<4, 5>>
      [] t = "Cable Tray" -> <<3, 5>>
      [] t = "Electrical" -> <<1, 2>>
      [] t = "Instrumentation" -> <<1, 2>>
      [] t = "Piping" -> <<7, 10>>
      [] t = "Piping Insulation" -> <<13, 20>>
      [] t = "UG Conduit" -> <<7, 10>>
      [] t = "Transformer" -> <<1, 2>>
      [] t = "Civil Works" -> <<9, 10>>
      [] OTHER -> <<>>

\* 2 * INSTALL_BASE_DAYS.get(t, 1.0)
INSTALL_BASE_DAYS(t) ==
    CASE t = "Concrete" -> 6
      [] t = "Grout" -> 1
      [] t = "Piling" -> 4
      [] t = "Cable Tray" -> 6
      [] t = "Electrical" -> 10
      [] t = "Instrumentation" -> 8
      [] t = "Piping" -> 8
      [] t = "Piping Insulation" -> 6
      [] t = "UG Conduit" -> 6
      [] t = "Transformer" -> 3
      [] t = "Civil Works" -> 6
      [] OTHER -> 2

\* 4 * bounds.get(t, (0.25, 15.0))
InstallBounds(t) ==
    CASE t \in {"Concrete", "Civil Works"} -> <<2, 40>>
      [] t = "Grout" -> <<1, 8>>
      [] t = "Piling" -> <<2, 32>>
      [] t = "Piping" -> <<4, 40>>
      [] t = "Piping Insulation" -> <<2, 32>>
      [] t = "Cable Tray" -> <<2, 32>>
      [] t = "UG Conduit" -> <<4, 32>>
      [] t = "Electrical" -> <<4, 48>>
      [] t = "Instrumentation" -> <<4, 40>>
      [] t = "Transformer" -> <<2, 20>>
      [] OTHER -> <<1, 60>>

\* 4 * (0.25, 7.0)
EquipBounds == <<1, 28>>

\* the regular expressions of _classify_module_subtype, in their order, on the
\* upper-cased name; of the tokens of a text only set and install can match
_classify_module_subtype(name) ==
    IF IsNone(name) THEN "module_other"
    ELSE LET tok == Val(name).set
             ins == Val(name).install
         IN  IF tok = "V101" THEN "module_valve"
             ELSE IF tok = "AHU" THEN "module_ahu"
             ELSE IF tok = "XFMR" \/ ins = "Transformer" THEN "module_transformer"
             ELSE IF tok = "PANEL" THEN "module_switchgear"
             ELSE IF tok = "HEATER" THEN "module_vaporizer_heater"
             ELSE IF tok = "COMPRESSOR" THEN "module_compressor"
             ELSE IF tok = "TANK" THEN "module_tank"
             ELSE IF tok = "VESSEL" THEN "module_vessel"
             ELSE IF tok = "CRANE" THEN "module_crane"
             ELSE IF tok = "SCALE" THEN "module_weighscale"
             ELSE IF tok = "PUMP" THEN "module_motor_pump_fan"
             ELSE IF tok = "BUILDING" THEN "module_building_equipment"
             ELSE "module_other"

\* 2 * EQUIP_SUBTYPE_BASE_DAYS.get(subtype, 1.5)
EQUIP_SUBTYPE_BASE_DAYS(st) ==
    CASE st = "module_valve" -> 1
      [] st \in {"module_motor_pump_fan", "module_ahu", "module_transformer"} -> 3
      [] st \in {"module_switchgear", "module_vessel", "module_vaporizer_heater"} -> 4
      [] st \in {"module_tank", "module_compressor"} -> 5
      [] st \in {"module_crane", "module_weighscale"} -> 2
      [] st = "module_building_equipment" -> 6
      [] OTHER -> 3

\* EQUIP_SUBTYPE_EXPONENT.get(subtype, 0.50) as <<p, q>>
EQUIP_SUBTYPE_EXPONENT(st) ==
    CASE st \in {"module_valve", "module_crane", "module_weighscale"} -> <<2, 5>>
      [] st \in {"module_switchgear", "module_vessel", "module_tank",
                 "module_vaporizer_heater", "module_compressor",
                 "module_building_equipment"} -> <<3, 5>>
      [] OTHER -> <<1, 2>>

_volume_for_record(rec) ==
    IF ~IsNone(rec.Volume) THEN Max(0, Val(rec.Volume))
    ELSE IF ~IsNone(rec.Height) /\ ~IsNone(rec.Length) /\ ~IsNone(rec.Width)
    THEN Max(0, Val(rec.Height) * Val(rec.Length) * Val(rec.Width))
    ELSE IF \A o \in {rec.MinOfMinX, rec.MaxOfMaxX, rec.MinOfMinY, rec.MaxOfMaxY,
                      rec.MinOfMinZ, rec.MaxOfMaxZ} : ~IsNone(o)
    THEN LET dx == Max(0, Val(rec.MaxOfMaxX) - Val(rec.MinOfMinX))
             dy == Max(0, Val(rec.MaxOfMaxY) - Val(rec.MinOfMinY))
             dz == Max(0, Val(rec.MaxOfMaxZ) - Val(rec.MinOfMinZ))
         IN  Max(0, (dx * dy * dz) \div 4)
    ELSE 0

OrZero(o) == IF IsNone(o) THEN 0 ELSE Val(o)

_run_length_for_record(rec) == Max(OrZero(rec.Length), OrZero(rec.Width))

_plan_area_for_record(rec) == Max(0, OrZero(rec.Length) * OrZero(rec.Width))

_height_for_record(rec) == OrZero(rec.Height)

\* the metric compute_durations selects for a type, and the model unit of 1.0
MetricOf(t, rec) ==
    IF t \in {"Concrete", "Grout", "Civil Works", "Transformer"} THEN _volume_for_record(rec)
    ELSE IF t \in {"Piping", "Piping Insulation", "Cable Tray", "UG Conduit"}
    THEN _run_length_for_record(rec)
    ELSE IF t \in {"Electrical", "Instrumentation"} THEN _plan_area_for_record(rec)
    ELSE IF t = "Piling" THEN _height_for_record(rec)
    ELSE _volume_for_record(rec)

MetricUnit(t) ==
    IF t \in {"Piping", "Piping Insulation", "Cable Tray", "UG Conduit", "Piling"} THEN 10
    ELSE IF t \in {"Electrical", "Instrumentation"} THEN 100
    ELSE 1000

RECURSIVE SortInts(_)
SortInts(s) ==
    IF s = <<>> THEN <<>>
    ELSE LET m == CHOOSE k \in DOMAIN s : \A j \in DOMAIN s : s[k] <= s[j]
         IN  <<s[m]>> \o SortInts([j \in 1..(Len(s) - 1) |-> IF j < m THEN s[j] ELSE s[j + 1]])

\* 2 * _median(values)
_median(values) ==
    LET vals == SortInts(values)
        n == Len(vals)
        mid == n \div 2
    IN  IF n = 0 THEN 0
        ELSE IF n % 2 = 1 THEN 2 * vals[mid + 1]
        ELSE vals[mid] + vals[mid + 1]

\* Natural numbers of any size, as base-10000 digits, least significant first
BigOne == <<1>>

Base == 100 * 100

\* digit k of x, 0 beyond its length
DigitAt(x, k) == IF k \in DOMAIN x THEN x[k] ELSE 0

\* position k of x * m before carries: the low part of x[k] * m and the high part
\* of x[k - 1] * m; at most 2 * Base - 2 for 1 <= m <= Base
Partial(x, m, k) ==
    ((DigitAt(x, k) * m) % Base) + ((DigitAt(x, k - 1) * m) \div Base)

\* a carry enters position k: some lower position overflows and every position
\* between passes the carry on
CarryIn(x, m, k) ==
    \E j \in 1..(k - 1) :
        /\ Partial(x, m, j) >= Base
        /\ \A i \in (j + 1)..(k - 1) : Partial(x, m, i) = Base - 1

MulDigit(x, m, k) == (Partial(x, m, k) + (IF CarryIn(x, m, k) THEN 1 ELSE 0)) % Base

\* x * m, for 1 <= m <= Base
BigMul(x, m) ==
    IF MulDigit(x, m, Len(x) + 1) = 0
    THEN [k \in 1..Len(x) |-> MulDigit(x, m, k)]
    ELSE [k \in 1..(Len(x) + 1) |-> MulDigit(x, m, k)]

\* the factors of m taken in one multiplication: m^Chunk(m) <= Base
Chunk(m) ==
    IF m <= 2 THEN 13 ELSE IF m <= 3 THEN 8 ELSE IF m <= 4 THEN 6 ELSE IF m <= 6 THEN 5
    ELSE IF m <= 10 THEN 4 ELSE IF m <= 21 THEN 3 ELSE IF m <= 100 THEN 2 ELSE 1

RECURSIVE BigMulPow(_, _, _)
\* x * m^n, for 1 <= m <= Base
BigMulPow(x, m, n) ==
    IF n = 0 \/ m = 1 THEN x
    ELSE Eval({BigMulPow(y, m, n - Min(n, Chunk(m))) :
                  y \in {BigMul(x, m ^ Min(n, Chunk(m)))}})

BigLeq(x, y) ==
    \/ Len(x) < Len(y)
    \/ /\ Len(x) = Len(y)
       /\ \/ x = y
          \/ \E k \in DOMAIN x : x[k] < y[k] /\ \A i \in (k + 1)..Len(x) : x[i] = y[i]

RECURSIVE Gcd(_, _)
Gcd(a, b) == IF b = 0 THEN a ELSE Gcd(b, a % b)

\* (a/b)^(p/q) <= P/Q for a >= 0, b > 0, P >= 0, Q > 0, exactly:
\* a^p * Q^q <= P^q * b^p
PowLeq(a, b, p, q, P, Q) ==
    IF a = 0 THEN TRUE
    ELSE IF P = 0 THEN FALSE
    ELSE LET g == Gcd(a, b)
             h == Gcd(P, Q)
         IN  BigLeq(BigMulPow(BigMulPow(BigOne, a \div g, p), Q \div h, q),
                    BigMulPow(BigMulPow(BigOne, P \div h, q), b \div g, p))

\* max(min_d, min(base * (metric/denom) ** beta, max_d)) * factor * 1.5 <= n, where
\* base2 = 2 * base, bnd = 4 * (min_d, max_d), factor = 1/fden
DaysLeq(n, base2, metric, denom2, beta, bnd, fden) ==
    LET cn == 2 * n * fden      \* the clamped days must be <= cn / 3
    IN  /\ bnd[1] * 3 <= 4 * cn
        /\ \/ bnd[2] * 3 <= 4 * cn
           \/ PowLeq(2 * metric, denom2, beta[1], beta[2], 2 * cn, 3 * base2)

\* the least n in 1..upper with DaysLeq(n, ...); the clamped days are at most max_d,
\* so upper = ceil(1.5 * max_d) is such an n
LeastDays(upper, base2, metric, denom2, beta, bnd, fden) ==
    SetMin({n \in 1..upper : DaysLeq(n, base2, metric, denom2, beta, bnd, fden)})

\* int(max(1.0, days * 1.5)) for days that are no whole number: rounded down
FloorDays(base2, metric, denom2, beta, bnd, fden) ==
    LeastDays((3 * bnd[2]) \div 8 + 1, base2, metric, denom2, beta, bnd, fden) - 1

\* math.ceil(max(1.0, days * 1.5))
CeilDays(base2, metric, denom2, beta, bnd, fden) ==
    LeastDays((3 * bnd[2]) \div 8 + 1, base2, metric, denom2, beta, bnd, fden)

\* type_metric_values[t]: the metrics of the records of type t that are no Set_* activity
TypeMetricValues(cleaned, t) ==
    LET idx == SelectIdx(cleaned,
                   [k \in DOMAIN cleaned |->
                       /\ ~_is_set_activity(cleaned[k].ElementName)
                       /\ _extract_activity_type(cleaned[k].ElementName) = t], 1)
    IN  [k \in DOMAIN idx |-> MetricOf(t, cleaned[idx[k]])]

SetVols(cleaned) ==
    LET idx == SelectIdx(cleaned,
                   [k \in DOMAIN cleaned |-> _is_set_activity(cleaned[k].ElementName)], 1)
    IN  [k \in DOMAIN idx |-> _volume_for_record(cleaned[idx[k]])]

\* denom = 1.0 whatever the median is: no normalisation by the median
DenomOne(median2, unit) == 2 * unit

\* denom = median if median > 0 else 1.0, doubled
Denom2(median2, unit) == IF median2 > 0 THEN median2 ELSE 2 * unit

\* whether compute_durations raises ValueError for the record
MissingExponent(rec) ==
    /\ ~_is_set_activity(rec.ElementName)
    /\ INSTALL_EXPONENTS(_extract_activity_type(rec.ElementName)) = <<>>

DurationOf(cleaned, rec) ==
    LET name == rec.ElementName
        act_type == _extract_activity_type(name)
        fden == IF act_type = "Concrete" THEN 2 ELSE 1
    IN  IF _is_set_activity(name)
        THEN LET subtype == _classify_module_subtype(name)
             IN  Eval({CeilDays(EQUIP_SUBTYPE_BASE_DAYS(subtype), metric, denom2,
                                EQUIP_SUBTYPE_EXPONENT(subtype), EquipBounds, fden) :
                          metric \in {_volume_for_record(rec)},
                          denom2 \in {Denom2(_median(SetVols(cleaned)), 1000)}})
        ELSE Eval({CeilDays(INSTALL_BASE_DAYS(act_type), metric, denom2,
                            INSTALL_EXPONENTS(act_type), InstallBounds(act_type), fden) :
                      metric \in {MetricOf(act_type, rec)},
                      denom2 \in {Denom2(_median(TypeMetricValues(cleaned, act_type)),
                                         MetricUnit(act_type))}})

\* the output record when no field is popped
EnrichKeepAll(cleaned, rec) ==
    [f \in DOMAIN rec \cup {"Type", "Duration"} |->
        IF f = "Type" THEN _extract_activity_type(rec.ElementName)
        ELSE IF f = "Duration" THEN DurationOf(cleaned, rec)
        ELSE rec[f]]

\* the output record: the input record without X/Y/Z Coordinate and Position X/Y/Z,
\* with Type and Duration
EnrichRecord(cleaned, rec) ==
    [ElementName |-> rec.ElementName, CWA |-> rec.CWA, GUID |-> rec.GUID,
     Height |-> rec.Height, Length |-> rec.Length, Width |-> rec.Width,
     Volume |-> rec.Volume,
     MinOfMinX |-> rec.MinOfMinX, MaxOfMaxX |-> rec.MaxOfMaxX,
     MinOfMinY |-> rec.MinOfMinY, MaxOfMaxY |-> rec.MaxOfMaxY,
     MinOfMinZ |-> rec.MinOfMinZ, MaxOfMaxZ |-> rec.MaxOfMaxZ,
     Type |-> _extract_activity_type(rec.ElementName),
     Duration |-> DurationOf(cleaned, rec)]

\* <<>> when compute_durations raises, else <<the enriched records>>
compute_durations(cleaned) ==
    IF \E k \in DOMAIN cleaned : MissingExponent(cleaned[k]) THEN None
    ELSE Some([k \in DOMAIN cleaned |-> EnrichRecord(cleaned, cleaned[k])])

(***************************************************************************)
(* Sequence  (src/dataProc/services/sequence_service.py)                   *)
(*                                                                         *)
(* Thresholds are in tenths: horiz 8 is 0.8, vert <<5, 2>> is (0.5, 0.2).  *)
(* A ratio or a score is an exact fraction <<num, den>> with den > 0.      *)
(* A dependency-rules object is the sequence of its items in key order,    *)
(* each [key, islist, preds].                                              *)
(***************************************************************************)
_get_box(rec) ==
    IF \E o \in {rec.MinOfMinX, rec.MaxOfMaxX, rec.MinOfMinY, rec.MaxOfMaxY} : IsNone(o)
    THEN None
    ELSE Some(<<Val(rec.MinOfMinX), Val(rec.MaxOfMaxX), Val(rec.MinOfMinY), Val(rec.MaxOfMaxY)>>)

\* the fraction n/d in lowest terms (n >= 0, d > 0)
Fraction(n, d) == <<n \div Gcd(n, d), d \div Gcd(n, d)>>

_area_overlap_ratio(box1, box2) ==
    LET overlap_x == Max(0, Min(box1[2], box2[2]) - Max(box1[1], box2[1]))
        overlap_y == Max(0, Min(box1[4], box2[4]) - Max(box1[3], box2[3]))
        overlap_area == overlap_x * overlap_y
        a1 == Max(0, (box1[2] - box1[1]) * (box1[4] - box1[3]))
        a2 == Max(0, (box2[2] - box2[1]) * (box2[4] - box2[3]))
    IN  IF a1 <= 0 \/ a2 <= 0 THEN <<0, 1>>
        ELSE Fraction(overlap_area, Min(a1, a2))     \* max(overlap/a1, overlap/a2)

_has_vertical_dependency(pred_max_z, curr_min_z, th1, th2) ==
    IF IsNone(pred_max_z) \/ IsNone(curr_min_z) THEN FALSE
    ELSE /\ Val(curr_min_z) > Val(pred_max_z) - th1
         /\ Val(curr_min_z) < Val(pred_max_z) + th2

\* str(s or "").strip().casefold(): internal whitespace is kept
_norm_type(s) ==
    CASE s \in {"Concrete", "CONCRETE", " concrete "} -> "concrete"
      [] s = "Grout" -> "grout"
      [] s = "Piling" -> "piling"
      [] s = "Cable Tray" -> "cable tray"
      [] s = "Electrical" -> "electrical"
      [] s = "Instrumentation" -> "instrumentation"
      [] s \in {"Piping", "PIPING"} -> "piping"
      [] s = "Piping Insulation" -> "piping insulation"
      [] s = "Piping  Insulation" -> "piping  insulation"
      [] s = "UG Conduit" -> "ug conduit"
      [] s = "Transformer" -> "transformer"
      [] s = "Civil Works" -> "civil works"
      [] s \in {"Equipment", "EQUIPMENT"} -> "equipment"
      [] OTHER -> s

Rule(type, vert, horiz) == [type |-> type, vert |-> vert, horiz |-> horiz]

\* a default table where Concrete waits for Equipment, which waits for Concrete
default_rules_cyclic(cur_type) ==
    CASE cur_type = "Equipment" ->
            <<Rule("Concrete", <<5, 2>>, 8), Rule("Piling", <<5, 2>>, 8),
              Rule("Civil Works", <<5, 2>>, 8)>>
      [] cur_type = "Concrete" -> <<Rule("Equipment", <<>>, 8)>>
      [] cur_type = "Piping" -> <<Rule("Concrete", <<5, 2>>, 8)>>
      [] cur_type = "Piping Insulation" -> <<Rule("Piping", <<>>, 8)>>
      [] OTHER -> <<>>

default_rules(cur_type) ==
    CASE cur_type = "Equipment" ->
            <<Rule("Concrete", <<5, 2>>, 8), Rule("Piling", <<5, 2>>, 8),
              Rule("Civil Works", <<5, 2>>, 8)>>
      [] cur_type = "Grout" -> <<Rule("Concrete", <<2, 2>>, 8)>>
      [] cur_type = "Piping" -> <<Rule("Concrete", <<5, 2>>, 8)>>
      [] cur_type = "Piping Insulation" -> <<Rule("Piping", <<>>, 8)>>
      [] cur_type = "Cable Tray" -> <<Rule("Concrete", <<5, 2>>, 8)>>
      [] cur_type = "Electrical" -> <<Rule("Cable Tray", <<>>, 6), Rule("UG Conduit", <<>>, 6)>>
      [] cur_type = "Instrumentation" -> <<Rule("Piping", <<>>, 6)>>
      [] cur_type = "UG Conduit" -> <<Rule("Civil Works", <<>>, 6)>>
      [] cur_type = "Transformer" -> <<Rule("Concrete", <<5, 2>>, 8)>>
      [] OTHER -> <<>>      \* Piling, Concrete, Civil Works, and default_rules.get(t, [])

DefaultKeys ==
    <<"Equipment", "Grout", "Piling", "Concrete", "Piping", "Piping Insulation",
      "Cable Tray", "Electrical", "Instrumentation", "UG Conduit", "Transformer",
      "Civil Works">>

RECURSIVE FindRule(_, _, _)
\* for r in lst: if _norm_type(r.get("type")) == pred_l: return r
FindRule(lst, pred, k) ==
    IF k > Len(lst) THEN None
    ELSE IF _norm_type(lst[k].type) = _norm_type(pred) THEN Some(lst[k])
    ELSE FindRule(lst, pred, k + 1)

RECURSIVE ScanDefaults(_, _, _)
\* for k, lst in default_rules.items(): if _norm_type(k) == cur_l: ...
ScanDefaults(cur, pred, k) ==
    IF k > Len(DefaultKeys) THEN None
    ELSE IF /\ _norm_type(DefaultKeys[k]) = _norm_type(cur)
            /\ ~IsNone(FindRule(default_rules(DefaultKeys[k]), pred, 1))
    THEN FindRule(default_rules(DefaultKeys[k]), pred, 1)
    ELSE ScanDefaults(cur, pred, k + 1)

_default_rule_pair(cur, pred) == ScanDefaults(cur, pred, 1)

RECURSIVE FirstKey(_, _, _, _)
\* the first item whose key is cur_type (exact) or matches it under _norm_type
FirstKey(type_rules, cur_type, exact, k) ==
    IF k > Len(type_rules) THEN None
    ELSE IF \/ exact /\ type_rules[k].key = cur_type
            \/ ~exact /\ _norm_type(type_rules[k].key) = _norm_type(cur_type)
    THEN Some(type_rules[k])
    ELSE FirstKey(type_rules, cur_type, exact, k + 1)

\* type_rules.get(cur_type), else the first item whose key matches case-insensitively
DesiredPreds(type_rules, cur_type) ==
    IF ~IsNone(FirstKey(type_rules, cur_type, TRUE, 1))
    THEN FirstKey(type_rules, cur_type, TRUE, 1)
    ELSE FirstKey(type_rules, cur_type, FALSE, 1)

RECURSIVE NormPreds(_, _)
\* predecessor types deduplicated by _norm_type, first spelling kept, order preserved
NormPreds(preds, acc) ==
    IF preds = <<>> THEN acc
    ELSE IF \E j \in DOMAIN acc : _norm_type(acc[j]) = _norm_type(Head(preds))
    THEN NormPreds(Tail(preds), acc)
    ELSE NormPreds(Tail(preds), Append(acc, Head(preds)))

\* the pair of the default table is never used
RuleOrLoose(base, p_name) == Rule(p_name, <<>>, 8)

\* dict(base) if base is not None else {"type": p_name, "horiz": 0.8}
RuleOr(base, p_name) == IF ~IsNone(base) THEN Val(base) ELSE Rule(p_name, <<>>, 8)

RulesFromPreds(cur_type, norm_preds) ==
    [k \in DOMAIN norm_preds |->
        RuleOr(_default_rule_pair(cur_type, norm_preds[k]), norm_preds[k])]

RuleListOf(desired, cur_type) ==
    IF ~IsNone(desired) /\ Val(desired).islist
    THEN RulesFromPreds(cur_type, NormPreds(Val(desired).preds, <<>>))
    ELSE default_rules(cur_type)

\* the rule list of one activity; type_rules is <<>> (no object) or <<the object>>
RuleList(type_rules, cur_type) ==
    IF IsNone(type_rules) THEN default_rules(cur_type)
    ELSE RuleListOf(DesiredPreds(Val(type_rules), cur_type), cur_type)

\* the horizontal check switched off
HorizPassAlways(ov, th_h) == TRUE

\* not (overlap < float(th_h))
HorizPass(ov, th_h) == ~(10 * ov[1] < th_h * ov[2])

\* Passes without "if i == j: continue"
PassesSelf(recs, i, j, rule) ==
    /\ _norm_type(recs[j].Type) = _norm_type(rule.type)
    /\ ~IsNone(_get_box(recs[i])) /\ ~IsNone(_get_box(recs[j]))
    /\ HorizPass(_area_overlap_ratio(Val(_get_box(recs[i])), Val(_get_box(recs[j]))),
                 rule.horiz)
    /\ \/ IsNone(rule.vert)
       \/ _has_vertical_dependency(recs[j].MaxOfMaxZ, recs[i].MinOfMinZ,
                                   rule.vert[1], rule.vert[2])

\* candidate j passes the type, horizontal and vertical checks of a rule for record i
Passes(recs, i, j, rule) ==
    /\ i # j
    /\ _norm_type(recs[j].Type) = _norm_type(rule.type)
    /\ ~IsNone(_get_box(recs[i])) /\ ~IsNone(_get_box(recs[j]))
    /\ HorizPass(_area_overlap_ratio(Val(_get_box(recs[i])), Val(_get_box(recs[j]))),
                 rule.horiz)
    /\ \/ IsNone(rule.vert)
       \/ _has_vertical_dependency(recs[j].MaxOfMaxZ, recs[i].MinOfMinZ,
                                   rule.vert[1], rule.vert[2])

\* every score lies 2 lower, below the best_score = -1.0 the scan starts from
ScoreBelowStart(ov, dz) == <<10 * ov[1] - dz * ov[2] - 20 * ov[2], 10 * ov[2]>>

ScoreOf(ov, dz) == <<10 * ov[1] - dz * ov[2], 10 * ov[2]>>

\* score of a passing candidate: overlap ratio, minus dz when the rule has vert
Score(recs, i, j, rule) ==
    ScoreOf(_area_overlap_ratio(Val(_get_box(recs[i])), Val(_get_box(recs[j]))),
            IF ~IsNone(rule.vert) /\ ~IsNone(recs[j].MaxOfMaxZ) /\ ~IsNone(recs[i].MinOfMinZ)
            THEN Abs(Val(recs[i].MinOfMinZ) - Val(recs[j].MaxOfMaxZ)) ELSE 0)

\* score >= best_score: of equal scores the last one is kept
ScoreAtLeast(a, b) == a[1] * b[2] >= b[1] * a[2]

ScoreGreater(a, b) == a[1] * b[2] > b[1] * a[2]

\* <<>> when candidate j is skipped, else <<its score>>
Candidate(recs, i, j, rule) ==
    IF Passes(recs, i, j, rule) THEN Some(Score(recs, i, j, rule)) ELSE None

RECURSIVE BestPred(_, _, _, _, _, _, _)
RECURSIVE BestStep(_, _, _, _, _, _, _, _)
\* if score > best_score: best_score = score; best = j
BestStep(recs, group, i, rule, k, best_score, best, cand) ==
    IF ~IsNone(cand) /\ ScoreGreater(Val(cand), best_score)
    THEN BestPred(recs, group, i, rule, k + 1, Val(cand), Some(group[k]))
    ELSE BestPred(recs, group, i, rule, k + 1, best_score, best)

\* the scan "for j, cand in idx.items()" over the group: best is <<>> or <<j>>
BestPred(recs, group, i, rule, k, best_score, best) ==
    IF k > Len(group) THEN best
    ELSE BestStep(recs, group, i, rule, k, best_score, best,
                  Candidate(recs, i, group[k], rule))

\* the edge of record i to record j under a rule.  cur, pred and rule record which
\* record and rule emitted the edge; they are not part of the written edge.
Edge(recs, i, j, rule) ==
    [ScheduleActivityID |-> recs[i].ElementName,
     Predecessor |-> recs[j].ElementName,
     Rel |-> "FS", TaskType |-> "Construct",
     cur |-> i, pred |-> j, rule |-> rule]

\* if best_pred_name: edges.append(...)
EdgeIf(recs, i, rule, best) ==
    IF IsNone(best) THEN <<>>
    ELSE IF IsNone(recs[Val(best)].ElementName) THEN <<>>
    ELSE <<Edge(recs, i, Val(best), rule)>>

RECURSIVE EdgesOfRules(_, _, _, _, _)
\* for rule in rule_list: ...
EdgesOfRules(recs, group, i, rule_list, k) ==
    IF k > Len(rule_list) THEN <<>>
    ELSE EdgeIf(recs, i, rule_list[k],
                BestPred(recs, group, i, rule_list[k], 1, <<-1, 1>>, None))
         \o EdgesOfRules(recs, group, i, rule_list, k + 1)

\* the edges record i emits, one rule after the other
EdgesOfRecord(recs, group, i, type_rules) ==
    EdgesOfRules(recs, group, i, RuleList(type_rules, recs[i].Type), 1)

RECURSIVE EdgesOfGroup(_, _, _, _)
EdgesOfGroup(recs, group, type_rules, k) ==
    IF k > Len(group) THEN <<>>
    ELSE EdgesOfRecord(recs, group, group[k], type_rules)
         \o EdgesOfGroup(recs, group, type_rules, k + 1)

_sequence_group(recs, group, type_rules) == EdgesOfGroup(recs, group, type_rules, 1)

\* str(rec.get("CWA") or "").strip()
CwaKey(rec) == IF IsNone(rec.CWA) THEN "" ELSE Val(rec.CWA)

GroupsOf(recs, firsts) ==
    [g \in DOMAIN firsts |->
        SelectIdx(recs, [k \in DOMAIN recs |-> CwaKey(recs[k]) = CwaKey(recs[firsts[g]])], 1)]

\* by_cwa: the groups in order of first appearance, each the indices of its records
Groups(recs) ==
    GroupsOf(recs, SelectIdx(recs, [k \in DOMAIN recs |->
                      /\ CwaKey(recs[k]) # ""
                      /\ \A j \in 1..(k - 1) : CwaKey(recs[j]) # CwaKey(recs[k])], 1))

RECURSIVE EdgesOfGroups(_, _, _, _)
\* for cwa, group in by_cwa.items(): all_edges.extend(_sequence_group(group, ...))
EdgesOfGroups(recs, groups, type_rules, g) ==
    IF g > Len(groups) THEN <<>>
    ELSE _sequence_group(recs, groups[g], type_rules)
         \o EdgesOfGroups(recs, groups, type_rules, g + 1)

compute_sequence(duration_records, type_rules) ==
    EdgesOfGroups(duration_records, Groups(duration_records), type_rules, 1)

NamesAt(recs, idx) == [k \in DOMAIN idx |-> Val(recs[idx[k]].ElementName)]

\* index_by_name.keys(): each non-empty Element Name, at its first index
NodeNames(recs) ==
    NamesAt(recs, SelectIdx(recs, [k \in DOMAIN recs |->
                   /\ ~IsNone(recs[k].ElementName)
                   /\ \A j \in 1..(k - 1) : recs[j].ElementName # recs[k].ElementName], 1))

index_by_name(recs, n) ==
    CHOOSE k \in DOMAIN recs :
        /\ recs[k].ElementName = Some(n)
        /\ \A j \in 1..(k - 1) : recs[j].ElementName # Some(n)

\* the name of set S with the greatest original index
LastByIndex(recs, S) ==
    CHOOSE x \in S : \A y \in S : index_by_name(recs, x) >= index_by_name(recs, y)

\* the name of set S with the least original index
FirstByIndex(recs, S) ==
    CHOOSE x \in S : \A y \in S : index_by_name(recs, x) <= index_by_name(recs, y)

RECURSIVE SortByIndex(_, _)
\* sort(key=lambda n: index_by_name[n]) of the names of set S
SortByIndex(recs, S) ==
    IF S = {} THEN <<>>
    ELSE <<FirstByIndex(recs, S)>> \o SortByIndex(recs, S \ {FirstByIndex(recs, S)})

Count(s, x) == Cardinality({k \in DOMAIN s : s[k] = x})

EdgesAt(edges, idx) ==
    [k \in DOMAIN idx |-> <<Val(edges[idx[k]].Predecessor),
                            Val(edges[idx[k]].ScheduleActivityID)>>]

\* the edges both of whose ends are nodes, as <<pred, cur>> in edge order
GraphEdges(names, edges) ==
    EdgesAt(edges, SelectIdx(edges, [k \in DOMAIN edges |->
                   /\ ~IsNone(edges[k].Predecessor) /\ ~IsNone(edges[k].ScheduleActivityID)
                   /\ Val(edges[k].Predecessor) \in Range(names)
                   /\ Val(edges[k].ScheduleActivityID) \in Range(names)], 1))

SuccAt(ge, idx) == [k \in DOMAIN idx |-> ge[idx[k]][2]]

\* adj[n]: the successors of n, one entry per edge, in edge order
Adj(ge, n) == SuccAt(ge, SelectIdx(ge, [k \in DOMAIN ge |-> ge[k][1] = n], 1))

\* indeg after "for m in adj[n]: indeg[m] -= 1"
Decrement(indeg, succ) == [m \in DOMAIN indeg |-> indeg[m] - Count(succ, m)]

RECURSIVE KahnByIndex(_, _, _, _, _)
RECURSIVE KahnPop(_, _, _, _, _, _)
\* the successors whose indeg reached 0 join ready; ready.sort(key=index_by_name)
KahnPop(recs, ge, ready, succ, indeg2, ordered) ==
    KahnByIndex(recs, ge,
                SortByIndex(recs, Range(Tail(ready)) \cup {m \in Range(succ) : indeg2[m] = 0}),
                indeg2, Append(ordered, Head(ready)))

\* while ready: n = ready.pop(0); ordered.append(n); ...
KahnByIndex(recs, ge, ready, indeg, ordered) ==
    IF ready = <<>> THEN ordered
    ELSE KahnPop(recs, ge, ready, Adj(ge, Head(ready)),
                 Decrement(indeg, Adj(ge, Head(ready))), ordered)

InDegree(names, ge) ==
    [n \in Range(names) |-> Cardinality({k \in DOMAIN ge : ge[k][2] = n})]

\* ready = [n for n, d in indeg.items() if d == 0]
Ready0(names, ge) == {n \in Range(names) : \A k \in DOMAIN ge : ge[k][2] # n}

\* the names never made ready are left out
KahnNoTail(recs, names, ordered) == ordered

\* the remaining nodes (on or behind a cycle) are appended in original order
KahnTail(recs, names, ordered) ==
    IF Len(ordered) < Len(names)
    THEN ordered \o SortByIndex(recs, Range(names) \ Range(ordered))
    ELSE ordered

KahnRun(recs, names, ge) ==
    KahnTail(recs, names,
             KahnByIndex(recs, ge, SortByIndex(recs, Ready0(names, ge)),
                         InDegree(names, ge), <<>>))

\* the legacy order of _build_activity_list: first appearance, edges ignored
OrderedAsInput(recs, names, edges) == names

OrderedOf(recs, names, edges) == KahnRun(recs, names, GraphEdges(names, edges))

\* the names in the order _build_activity_list_ordered emits them
OrderedNames(duration_records, edges) ==
    OrderedOf(duration_records, NodeNames(duration_records), edges)

\* the node of a name, from the first record of that name
Node(name, rec) ==
    [ScheduleActivityID |-> Some(name),
     Type |-> Some(rec.Type),
     Duration |-> Some(rec.Duration),
     CWA |-> rec.CWA,
     TaskType |-> Some("Construct"),
     Predecessors |-> None]        \* a node has no "Predecessors" key

NodesOf(recs, ordered) ==
    [k \in DOMAIN ordered |-> Node(ordered[k], recs[index_by_name(recs, ordered[k])])]

_build_activity_list_ordered(duration_records, edges) ==
    NodesOf(duration_records, OrderedNames(duration_records, edges))

(***************************************************************************)
(* Critical  (src/dataProc/services/critical_service.py)                   *)
(*                                                                         *)
(* An activity (a sequence node or an extra record) is a record            *)
(* [ScheduleActivityID, Type, Duration, CWA, TaskType, Predecessors], each *)
(* field optional; Predecessors is <<>> or <<the list of ids>>.            *)
(***************************************************************************)
RECURSIVE AppendNew(_, _)
\* for p in extra_preds: if p not in seen: base_pred.append(p); seen.add(p)
AppendNew(base_pred, extra_preds) ==
    IF extra_preds = <<>> THEN base_pred
    ELSE IF Head(extra_preds) \in Range(base_pred)
    THEN AppendNew(base_pred, Tail(extra_preds))
    ELSE AppendNew(Append(base_pred, Head(extra_preds)), Tail(extra_preds))

OrElse(o, d) == IF IsNone(o) THEN d ELSE o

RECURSIVE Find(_, _, _)
\* the position of the record with that id, 0 when there is none
Find(merged, aid, k) ==
    IF k > Len(merged) THEN 0
    ELSE IF merged[k].ScheduleActivityID = aid THEN k
    ELSE Find(merged, aid, k + 1)

\* by_id[aid] = rec, in place when the id is known and at the end when it is new
Put(merged, at, rec) ==
    IF at = 0 THEN Append(merged, rec) ELSE [merged EXCEPT ![at] = rec]

\* the first loop: a base record, "Predecessors" set to [] when None
MergeBase(merged, rec) ==
    IF IsNone(rec.ScheduleActivityID) THEN merged
    ELSE Put(merged, Find(merged, rec.ScheduleActivityID, 1),
             [rec EXCEPT !.Predecessors = OrElse(rec.Predecessors, Some(<<>>))])

\* the record of an extra activity whose id is new
NewExtra(rec) ==
    [ScheduleActivityID |-> rec.ScheduleActivityID,
     Type |-> rec.Type, Duration |-> rec.Duration, CWA |-> rec.CWA,
     TaskType |-> OrElse(rec.TaskType, Some("Construct")),
     Predecessors |-> OrElse(rec.Predecessors, Some(<<>>))]

\* the fields of the extra record replace those of b, null or not
MergeIntoAlways(b, rec) ==
    [ScheduleActivityID |-> b.ScheduleActivityID,
     Type |-> rec.Type, Duration |-> rec.Duration, CWA |-> rec.CWA,
     TaskType |-> rec.TaskType,
     Predecessors |-> Some(AppendNew(Val(OrElse(b.Predecessors, Some(<<>>))),
                                     Val(OrElse(rec.Predecessors, Some(<<>>)))))]

\* an extra activity merged into the record b of the same id
MergeInto(b, rec) ==
    [ScheduleActivityID |-> b.ScheduleActivityID,
     Type |-> OrElse(rec.Type, b.Type),
     Duration |-> OrElse(rec.Duration, b.Duration),
     CWA |-> OrElse(rec.CWA, b.CWA),
     TaskType |-> OrElse(rec.TaskType, b.TaskType),
     Predecessors |-> Some(AppendNew(Val(OrElse(b.Predecessors, Some(<<>>))),
                                     Val(OrElse(rec.Predecessors, Some(<<>>)))))]

MergeAt(merged, at, rec) ==
    IF at = 0 THEN Append(merged, NewExtra(rec))
    ELSE [merged EXCEPT ![at] = MergeInto(merged[at], rec)]

\* the second loop: an extra record
MergeExtra(merged, rec) ==
    IF IsNone(rec.ScheduleActivityID) THEN merged
    ELSE MergeAt(merged, Find(merged, rec.ScheduleActivityID, 1), rec)

RECURSIVE FoldMerge(_, _, _)
FoldMerge(merged, recs, isExtra) ==
    IF recs = <<>> THEN merged
    ELSE FoldMerge(IF isExtra THEN MergeExtra(merged, Head(recs))
                   ELSE MergeBase(merged, Head(recs)), Tail(recs), isExtra)

_merge_activities(base, extra) == FoldMerge(FoldMerge(<<>>, base, FALSE), extra, TRUE)

\* the greatest id in str order
GreatestId(S) == CHOOSE x \in S : \A y \in S : x = y \/ StrLess(y, x)

\* the least id in str order
LeastId(S) == CHOOSE x \in S : \A y \in S : x = y \/ StrLess(x, y)

RECURSIVE SortIds(_)
\* list.sort() of activity ids
SortIds(S) ==
    IF S = {} THEN <<>>
    ELSE <<LeastId(S)>> \o SortIds(S \ {LeastId(S)})

\* a task of the dict of _cpm: Duration coerced to a number, Predecessors a list
TaskRec(t) ==
    [ScheduleActivityID |-> Val(t.ScheduleActivityID), Type |-> t.Type,
     Duration |-> OrZero(t.Duration), CWA |-> t.CWA, TaskType |-> t.TaskType,
     Predecessors |-> Val(OrElse(t.Predecessors, Some(<<>>)))]

RECURSIVE FindTask(_, _, _)
\* the position of the task with that id, 0 when there is none
FindTask(tasks, id, k) ==
    IF k > Len(tasks) THEN 0
    ELSE IF tasks[k].ScheduleActivityID = id THEN k
    ELSE FindTask(tasks, id, k + 1)

RECURSIVE TasksDict(_, _)
\* tasks = {t["ScheduleActivityID"]: dict(t) for t in tasks_arr if the id is a str}
TasksDict(tasks_arr, tasks) ==
    IF tasks_arr = <<>> THEN tasks
    ELSE IF IsNone(Head(tasks_arr).ScheduleActivityID) THEN TasksDict(Tail(tasks_arr), tasks)
    ELSE TasksDict(Tail(tasks_arr),
                   Put(tasks, FindTask(tasks, Val(Head(tasks_arr).ScheduleActivityID), 1),
                       TaskRec(Head(tasks_arr))))

TaskIds(tasks) == {tasks[k].ScheduleActivityID : k \in DOMAIN tasks}

TaskOf(tasks, id) == tasks[CHOOSE k \in DOMAIN tasks : tasks[k].ScheduleActivityID = id]

Preds(tasks, id) == TaskOf(tasks, id).Predecessors

\* indeg after the successors of n were visited: one decrement per listing of n
DecrementById(tasks, indeg, n) ==
    [m \in DOMAIN indeg |-> indeg[m] - Count(Preds(tasks, m), n)]

RECURSIVE KahnById(_, _, _, _)
RECURSIVE KahnByIdPop(_, _, _, _, _)
\* the successors whose indeg reached 0 join ready; ready.sort()
KahnByIdPop(tasks, ready, indeg, indeg2, order) ==
    KahnById(tasks,
             SortIds(Range(Tail(ready)) \cup {m \in DOMAIN indeg : indeg[m] > 0 /\ indeg2[m] = 0}),
             indeg2, Append(order, Head(ready)))

\* while ready: n = ready.pop(0); order.append(n); ...
KahnById(tasks, ready, indeg, order) ==
    IF ready = <<>> THEN order
    ELSE KahnByIdPop(tasks, ready, indeg, DecrementById(tasks, indeg, Head(ready)), order)

\* indeg[k]: the listed predecessors of k that are tasks, one per listing
InDegreeById(tasks) ==
    [id \in TaskIds(tasks) |->
        Cardinality({j \in DOMAIN Preds(tasks, id) : Preds(tasks, id)[j] \in TaskIds(tasks)})]

Ready0ById(tasks) ==
    {id \in TaskIds(tasks) : \A j \in DOMAIN Preds(tasks, id) :
                                 Preds(tasks, id)[j] \notin TaskIds(tasks)}

\* the remaining ids (on or behind a cycle) are appended sorted
ToposortTail(tasks, order) ==
    IF Len(order) < Len(tasks) THEN order \o SortIds(TaskIds(tasks) \ Range(order))
    ELSE order

_toposort(tasks) ==
    ToposortTail(tasks, KahnById(tasks, SortIds(Ready0ById(tasks)), InDegreeById(tasks), <<>>))

\* tasks[p].get("EF") or 0.0
EfOrZero(o) == IF IsNone(o) THEN 0 ELSE Val(o).EF

\* es = max(0.0, EF of every listed predecessor that is a task)
\* every task starts at 0.0, whatever its predecessors
EarlyStartZero(preds, times) == 0

EarlyStart(preds, times) ==
    SetMax({0} \cup {EfOrZero(times[preds[j]]) :
                        j \in {i \in DOMAIN preds : preds[i] \in DOMAIN times}})

Timed(es, d) == Some([ES |-> es, EF |-> es + d])

RECURSIVE ForwardPass(_, _, _, _)
\* times: id -> <<>> | <<[ES, EF]>>, filled in the order of _toposort
ForwardPass(tasks, order, k, times) ==
    IF k > Len(order) THEN times
    ELSE ForwardPass(tasks, order, k + 1,
             [times EXCEPT ![order[k]] =
                 Timed(EarlyStart(Preds(tasks, order[k]), times),
                       TaskOf(tasks, order[k]).Duration)])

\* max(EF for k in order) if order else 0.0
ProjectFinishOf(order, times) ==
    IF order = <<>> THEN 0 ELSE SetMax({EfOrZero(times[order[k]]) : k \in DOMAIN order})

\* a task without successors finishes late at 0 instead of the project finish
LateFinishZero(succ_es, project_finish_) ==
    IF succ_es # {} THEN SetMin(succ_es) ELSE 0

\* lf = min(succ_es) if succ_es else project_finish
LateFinish(succ_es, project_finish_) ==
    IF succ_es # {} THEN SetMin(succ_es) ELSE project_finish_

\* the ES of the tasks that list id among their Predecessors
SuccEs(tasks, times, id) ==
    {Val(times[s]).ES : s \in {x \in TaskIds(tasks) : id \in Range(Preds(tasks, x))}}

\* every task with a float of at most 3 days is marked Critical
AnnotateLoose(t, time, lf) ==
    [ScheduleActivityID |-> t.ScheduleActivityID, Type |-> t.Type,
     Duration |-> t.Duration, CWA |-> t.CWA, TaskType |-> t.TaskType,
     Predecessors |-> t.Predecessors,
     ES |-> time.ES, EF |-> time.EF, LF |-> lf, LS |-> lf - t.Duration,
     Float |-> (lf - t.Duration) - time.ES,
     Critical |-> Abs((lf - t.Duration) - time.ES) <= 3]

Annotate(t, time, lf) ==
    [ScheduleActivityID |-> t.ScheduleActivityID, Type |-> t.Type,
     Duration |-> t.Duration, CWA |-> t.CWA, TaskType |-> t.TaskType,
     Predecessors |-> t.Predecessors,
     ES |-> time.ES, EF |-> time.EF, LF |-> lf, LS |-> lf - t.Duration,
     Float |-> (lf - t.Duration) - time.ES,
     Critical |-> Abs((lf - t.Duration) - time.ES) = 0]

BackwardPass(tasks, order, times, project_finish_) ==
    [k \in DOMAIN order |->
        Annotate(TaskOf(tasks, order[k]), Val(times[order[k]]),
                 LateFinish(SuccEs(tasks, times, order[k]), project_finish_))]

CpmResult(tasks, order, times, project_finish_) ==
    [result |-> BackwardPass(tasks, order, times, project_finish_),
     project_finish |-> project_finish_]

CpmBackward(tasks, order, times) ==
    CpmResult(tasks, order, times, ProjectFinishOf(order, times))

CpmForward(tasks, order) ==
    CpmBackward(tasks, order, ForwardPass(tasks, order, 1, [id \in TaskIds(tasks) |-> None]))

\* the manual CPM: [result, project_finish], result the annotated tasks in the
\* order of _toposort and project_finish the local of that name
ManualCpm(tasks) == CpmForward(tasks, _toposort(tasks))

_cpm(tasks_arr) == ManualCpm(TasksDict(tasks_arr, <<>>))

(***************************************************************************)
(* The working directory and the four stage handlers                       *)
(*                                                                         *)
(* A Clean body is [shape, data, deps]: shape "array" or "object" (with    *)
(* data the records), "array_bad" (an array holding a non-object),         *)
(* "object_bad" (activities/data is no array of objects) or "scalar";      *)
(* deps is [kind, rules] with kind "absent", "falsy" (an empty object      *)
(* under dependencies, dependency_rules or dictionary), "empty_last" (an   *)
(* empty object under dependencyRules), "dict" or "bad" (not an object).   *)
(* A Critical body is [shape, activities] with shape "array" or "bad".     *)
(* Of the archive only the newest time-stamped file of each artifact kind  *)
(* is kept: archive[kind] is <<>> or <<its content>>.  Older archive files *)
(* are never read or written again.                                        *)
(***************************************************************************)
FileNames ==
    {"clean_input_latest", "clean_output_latest", "dependency_rules",
     "duration_output_latest", "sequence_output_latest", "sequence_edges_latest",
     "critical_output_latest"}

ArchiveKinds ==
    {"clean_input", "clean_output", "duration_output", "sequence_output",
     "sequence_edges", "critical_output"}

EmptyDir == [f \in FileNames |-> None]
EmptyArchive == [k \in ArchiveKinds |-> None]

Dir(f, a, st, pf) == [files |-> f, archive |-> a, status |-> st, pf |-> pf]

RECURSIVE FirstNested(_, _)
\* the first record holding a nested dependency object
FirstNested(records, k) ==
    IF k > Len(records) THEN None
    ELSE IF ~IsNone(records[k].nested) THEN records[k].nested
    ELSE FirstNested(records, k + 1)

\* [ok, records, dependencies]; ok = FALSE is HTTP 422
_coerce_payload(body) ==
    IF body.shape = "array" THEN [ok |-> TRUE, records |-> body.data, dependencies |-> None]
    ELSE IF body.shape = "object"
    THEN [ok |-> body.deps.kind # "bad", records |-> body.data,
          dependencies |->
              IF body.deps.kind \in {"absent", "falsy"} THEN FirstNested(body.data, 1)
              ELSE IF body.deps.kind \in {"dict", "empty_last"} THEN Some(body.deps.rules)
              ELSE None]
    ELSE [ok |-> FALSE, records |-> <<>>, dependencies |-> None]

\* the clean output is written, and the dependency rules when there are any
CleanWrite(f1, a1, cleaned, dependencies) ==
    Dir([f1 EXCEPT !["clean_output_latest"] = Some(cleaned),
                   !["dependency_rules"] = IF ~IsNone(dependencies) THEN dependencies ELSE @],
        [a1 EXCEPT !["clean_output"] = Some(cleaned)], "ok", 0)

CleanJob(f1, a1, payload) ==
    IF ~payload.ok THEN Dir(f1, a1, "422", 0)
    ELSE Eval({CleanWrite(f1, a1, cleaned, payload.dependencies) :
                  cleaned \in {clean_data(payload.records)}})

\* POST /v1/clean: the raw body is persisted before it is validated
clean_endpoint(f, a, body) ==
    Eval({CleanJob([f EXCEPT !["clean_input_latest"] = Some(body)],
                   [a EXCEPT !["clean_input"] = Some(body)], payload) :
             payload \in {_coerce_payload(body)}})

DurationWrite(f, a, enriched) ==
    IF IsNone(enriched) THEN Dir(f, a, "422", 0)
    ELSE Dir([f EXCEPT !["duration_output_latest"] = enriched],
             [a EXCEPT !["duration_output"] = enriched], "ok", 0)

\* POST /v1/duration
run_duration_job(f, a) ==
    IF IsNone(f["clean_output_latest"]) THEN Dir(f, a, "404", 0)
    ELSE Eval({DurationWrite(f, a, enriched) :
                  enriched \in {compute_durations(Val(f["clean_output_latest"]))}})

_load_dependency_rules(f) == f["dependency_rules"]

SequenceWrite(f, a, activities, edges) ==
    Dir([f EXCEPT !["sequence_output_latest"] = Some(activities),
                  !["sequence_edges_latest"] = Some(edges)],
        [a EXCEPT !["sequence_output"] = Some(activities),
                  !["sequence_edges"] = Some(edges)], "ok", 0)

SequenceJob(f, a, duration_records, edges) ==
    Eval({SequenceWrite(f, a, activities, edges) :
             activities \in {_build_activity_list_ordered(duration_records, edges)}})

\* run_sequence_job without the os.path.exists test: a missing input reads as []
run_sequence_job_unguarded(f, a) ==
    IF IsNone(f["duration_output_latest"]) THEN SequenceJob(f, a, <<>>, <<>>)
    ELSE Eval({SequenceJob(f, a, Val(f["duration_output_latest"]), edges) :
                  edges \in {compute_sequence(Val(f["duration_output_latest"]),
                                              _load_dependency_rules(f))}})

\* POST /v1/sequence
run_sequence_job(f, a) ==
    IF IsNone(f["duration_output_latest"]) THEN Dir(f, a, "404", 0)
    ELSE Eval({SequenceJob(f, a, Val(f["duration_output_latest"]), edges) :
                  edges \in {compute_sequence(Val(f["duration_output_latest"]),
                                              _load_dependency_rules(f))}})

\* [ok, activities]; ok = FALSE is ValueError (HTTP 422)
_coerce_extra(body) == [ok |-> body.shape = "array", activities |-> body.activities]

\* the file opened in mode "a": the result is appended to what the file holds
CriticalAppend(f, a, cpm) ==
    Dir([f EXCEPT !["critical_output_latest"] =
            Some(Val(OrElse(@, Some(<<>>))) \o cpm.result)], a, "ok", cpm.project_finish)

\* only critical_output_latest.json is written: no archive copy
CriticalWrite(f, a, cpm) ==
    Dir([f EXCEPT !["critical_output_latest"] = Some(cpm.result)], a, "ok",
        cpm.project_finish)

CriticalJob(f, a, extra) ==
    IF ~extra.ok THEN Dir(f, a, "422", 0)
    ELSE Eval({CriticalWrite(f, a, _cpm(merged)) :
                  merged \in {_merge_activities(Val(f["sequence_output_latest"]),
                                                extra.activities)}})

\* POST /v1/critical
run_critical_job(f, a, extra_body) ==
    IF IsNone(f["sequence_output_latest"]) THEN Dir(f, a, "404", 0)
    ELSE CriticalJob(f, a, _coerce_extra(extra_body))

(***************************************************************************)
(* Inputs                                                                  *)
(***************************************************************************)
Geom(px, py, pz, h, l, w) ==
    [PositionX |-> Some(px), PositionY |-> Some(py), PositionZ |-> Some(pz),
     Height |-> Some(h), Length |-> Some(l), Width |-> Some(w)]

Layer(name) ==
    [Class |-> "Layer", ItemLayer |-> None, ElementName |-> Some(name),
     GUID |-> Some(name.id), XCoordinate |-> Some(0), YCoordinate |-> Some(0),
     ZCoordinate |-> Some(0), geom |-> None, nested |-> None]

\* a solid assigned to the layer of that name; the layer is spelled in lower case
Solid(name, g) ==
    [Class |-> "3D Solid", ItemLayer |-> Some([name EXCEPT !.sp = 1]), ElementName |-> None,
     GUID |-> None, XCoordinate |-> None, YCoordinate |-> None, ZCoordinate |-> None,
     geom |-> Some(g), nested |-> None]

NameA == Text("A", 0, "X", "Concrete", FALSE, "")
NameB == Text("B", 0, "X", "", FALSE, "PUMP")
NameC == Text("C", 0, "X", "Concrete", FALSE, "")
NameD == Text("D", 0, "X", "Piping", FALSE, "")
NameE == Text("E", 0, "X", "Piping Insulation", FALSE, "")
NameF == Text("F", 0, "Y", "Concrete", FALSE, "")
NameU == Text("F", 1, "X", "", FALSE, "")          \* no Install, civil works or Set token
NameG == Text("G", 0, "X", "Foo", FALSE, "PUMP")   \* ..._Set_PUMP_Install_Foo
NameH == Text("H", 0, "X", "Concrete", FALSE, "PUMP")   \* ..._Set_PUMP_Install_Concrete

SlabGeom == Geom(50, 50, 0, 10, 100, 100)          \* box 0..10 x 0..10, z 0..1
PumpGeom == Geom(50, 50, 10, 20, 100, 80)          \* on the slab
FarGeom == Geom(500, 50, 10, 20, 100, 80)          \* beside the slab
HighGeom == Geom(50, 50, 11, 10, 100, 100)         \* a slab 1.1 higher
LowGeom == Geom(50, 50, 0, 9, 100, 100)            \* a slab 0.1 lower
PipeGeom == Geom(50, 50, 10, 5, 100, 20)           \* on the slab
LagGeom == Geom(50, 50, 10, 8, 100, 25)            \* around the pipe

\* an item: a layer, and its solid when it has one
Item(name, g) == IF IsNone(g) THEN <<Layer(name)>> ELSE <<Layer(name), Solid(name, Val(g))>>

SeqItems ==
    <<Item(NameA, Some(SlabGeom)), Item(NameB, Some(PumpGeom)), Item(NameC, Some(SlabGeom)),
      Item(NameD, Some(PipeGeom)), Item(NameE, Some(LagGeom)), Item(NameF, Some(SlabGeom)),
      Item(NameB, Some(FarGeom)), Item(NameC, None), Item(NameA, Some(HighGeom)),
      Item(NameC, Some(LowGeom))>>

RuleItem(key, islist, preds) == [key |-> key, islist |-> islist, preds |-> preds]

\* {" concrete ": ["Equipment", "EQUIPMENT", "Piping"], "Piping Insulation": []}
RulesCycle ==
    <<RuleItem(" concrete ", TRUE, <<"Equipment", "EQUIPMENT", "Piping">>),
      RuleItem("Piping Insulation", TRUE, <<>>)>>
\* {"Equipment": ["PIPING", "Concrete"], "Piping": ["Piping", "Piping  Insulation"],
\*  "Piping Insulation": "Piping"}
RulesOther ==
    <<RuleItem("Equipment", TRUE, <<"PIPING", "Concrete">>),
      RuleItem("Piping", TRUE, <<"Piping", "Piping  Insulation">>),
      RuleItem("Piping Insulation", FALSE, <<>>)>>

NoDeps == [kind |-> "absent", rules |-> <<>>]
Deps(rules) == [kind |-> "dict", rules |-> rules]

ArrayBody(records) == [shape |-> "array", data |-> records, deps |-> NoDeps]
ObjectBody(records, deps) == [shape |-> "object", data |-> records, deps |-> deps]

(***************************************************************************)
(* Actions: one per request                                                *)
(***************************************************************************)
Apply(stage, result) ==
    \E r \in {result} :
    /\ files' = r.files
    /\ archive' = r.archive
    /\ status' = r.status
    /\ last' = stage
    /\ prev' = [files |-> files, archive |-> archive]
    /\ project_finish' = IF stage = "critical" /\ r.status = "ok" THEN r.pf ELSE project_finish
    /\ UNCHANGED <<pc, seen, partial>>

Clean(body) ==
    /\ Apply("clean", clean_endpoint(files, archive, body))
    /\ request' = Some(body)

Duration ==
    /\ Apply("duration", run_duration_job(files, archive))
    /\ request' = None

Sequence ==
    /\ Apply("sequence", run_sequence_job(files, archive))
    /\ request' = None

Critical(extra_body) ==
    /\ Apply("critical", run_critical_job(files, archive, extra_body))
    /\ request' = Some(extra_body)

NoRequests == [r \in {} |-> "idle"]

InitDir(f, a, st, stage) ==
    /\ files = f
    /\ archive = a
    /\ status = st
    /\ last = stage
    /\ prev = [files |-> EmptyDir, archive |-> EmptyArchive]
    /\ project_finish = 0
    /\ pc = NoRequests
    /\ seen = NoRequests
    /\ partial = {}
    /\ request = None

(***************************************************************************)
(* Spec: any sequence of requests on an initially empty working directory  *)
(***************************************************************************)
PipeBodies ==
    {ArrayBody(SeqItems[2] \o SeqItems[1]),
     ObjectBody(SeqItems[2] \o SeqItems[1] \o SeqItems[4], Deps(RulesCycle)),
     ArrayBody(Item(NameU, None)),
     [shape |-> "scalar", data |-> <<>>, deps |-> NoDeps]}

Activity(id, type, duration, cwa, tasktype, preds) ==
    [ScheduleActivityID |-> id, Type |-> type, Duration |-> duration, CWA |-> cwa,
     TaskType |-> tasktype, Predecessors |-> preds]

NameZ == Text("E", 1, "", "", FALSE, "")            \* an id the sequence does not have

PipeExtras ==
    {[shape |-> "array", activities |-> <<>>],
     [shape |-> "bad", activities |-> <<>>],
     [shape |-> "array", activities |->
         <<Activity(Some(NameB), None, Some(4), None, None, Some(<<NameA>>)),
           Activity(Some(NameZ), None, Some(2), None, None, Some(<<NameB>>))>>]}

Init == InitDir(EmptyDir, EmptyArchive, "none", "none")

Next ==
    \/ \E body \in PipeBodies : Clean(body)
    \/ Duration
    \/ Sequence
    \/ \E extra_body \in PipeExtras : Critical(extra_body)

Spec == Init /\ [][Next]_vars

(***************************************************************************)
(* SpecSeq: Sequence on the working directory left by Clean and Duration   *)
(* for a body of up to MaxRecs items of the catalogue, in any order and    *)
(* with repetitions, without or with a dependency dictionary               *)
(***************************************************************************)
MaxRecs == 3

ItemSeqs == UNION {[1..k -> DOMAIN SeqItems] : k \in 0..MaxRecs}

SeqDeps == {NoDeps, Deps(RulesCycle), Deps(RulesOther)}

SeqBody(s, deps) == ObjectBody(Flatten([k \in DOMAIN s |-> SeqItems[s[k]]]), deps)

AfterClean(result) == Eval({run_duration_job(r.files, r.archive) : r \in {result}})

InitFrom(result, stage) == \E r \in {result} : InitDir(r.files, r.archive, r.status, stage)

InitSeq ==
    \E s \in ItemSeqs, deps \in SeqDeps :
        InitFrom(AfterClean(clean_endpoint(EmptyDir, EmptyArchive, SeqBody(s, deps))),
                 "duration")

NextSeq == Sequence

SpecSeq == InitSeq /\ [][NextSeq]_vars

(***************************************************************************)
(* SpecCpm: one Critical request, with up to MaxExtras extra activities,   *)
(* on the working directory left by Clean, Duration and Sequence           *)
(***************************************************************************)
MaxExtras == 2

CpmBodies ==
    {ArrayBody(<<>>),
     ArrayBody(SeqItems[2] \o SeqItems[1]),
     ArrayBody(SeqItems[2] \o SeqItems[1] \o SeqItems[4]),
     ObjectBody(SeqItems[2] \o SeqItems[1] \o SeqItems[4], Deps(RulesCycle))}

ExtraIds == {NameA, NameB, NameZ}

\* the Type, CWA and TaskType an extra record carries, chosen with its Duration
ExtraType(d) == IF d = None THEN Some("Piping") ELSE None
ExtraCwa(d) == IF d = Some(-2) THEN Some("Y") ELSE None
ExtraTaskType(d) == IF d = None THEN Some("Milestone") ELSE None

ExtraActivities ==
    {Activity(Some(id), ExtraType(d), d, ExtraCwa(d), ExtraTaskType(d), ps) :
        id \in ExtraIds,
        d \in {None, Some(3), Some(-2)},
        ps \in {None} \cup {Some(<<p>>) : p \in ExtraIds}}

ExtraBodies ==
    {[shape |-> "array", activities |-> x] :
        x \in UNION {[1..k -> ExtraActivities] : k \in 0..MaxExtras}}

AfterDuration(result) == Eval({run_sequence_job(r.files, r.archive) : r \in {result}})

InitCpm ==
    \E body \in CpmBodies :
        InitFrom(AfterDuration(AfterClean(clean_endpoint(EmptyDir, EmptyArchive, body))),
                 "sequence")

NextCpm == \E extra_body \in ExtraBodies : last = "sequence" /\ Critical(extra_body)

SpecCpm == InitCpm /\ [][NextCpm]_vars

(***************************************************************************)
(* SpecConc: requests served concurrently on one working directory.  The   *)
(* endpoints are plain def functions, which the framework runs on worker   *)
(* threads; no lock is taken anywhere in src/dataProc.  A request advances *)
(* one file-system operation at a time: the os.path.exists test, the       *)
(* open/json.load of its source, and for each _write_json the              *)
(* open(path, "w"), which truncates the file, and the json.dump and close, *)
(* which complete it.  Requests reading the same source compute the same   *)
(* content, so overlapping writers leave a complete file once one closes.  *)
(***************************************************************************)
RequestKinds == [d1 |-> "duration", d2 |-> "duration", s1 |-> "sequence"]

Requests == DOMAIN RequestKinds

\* the content of a file that was opened for writing and is not written out
Incomplete == <<[incomplete |-> TRUE]>>

IsIncomplete(content) == Len(content) = 1 /\ DOMAIN content[1] = {"incomplete"}

SourceOf(kind) ==
    IF kind = "duration" THEN "clean_output_latest" ELSE "duration_output_latest"

Target(place, name) == [place |-> place, name |-> name]

\* the _write_json calls of a job, in source order
WritesOf(kind) ==
    IF kind = "duration"
    THEN <<Target("latest", "duration_output_latest"), Target("archive", "duration_output")>>
    ELSE <<Target("latest", "sequence_output_latest"), Target("archive", "sequence_output"),
           Target("latest", "sequence_edges_latest"), Target("archive", "sequence_edges")>>

At(at, k) == [at |-> at, k |-> k]

NotRead == [state |-> "none", data |-> <<>>, rules |-> None]

Finish(r, st) ==
    /\ pc' = [pc EXCEPT ![r] = At("done", 0)]
    /\ status' = st
    /\ last' = RequestKinds[r]

\* if not os.path.exists(source_path): raise FileNotFoundError
Exists(r) ==
    /\ pc[r].at = "exists"
    /\ IF IsNone(files[SourceOf(RequestKinds[r])])
       THEN Finish(r, "404")
       ELSE /\ pc' = [pc EXCEPT ![r] = At("load", 0)]
            /\ UNCHANGED <<status, last>>
    /\ UNCHANGED <<files, archive, prev, project_finish, seen, partial, request>>

\* the records a job goes on with: None when the job raises on them
Loaded(kind, data) ==
    IF kind = "duration" THEN compute_durations(data) ELSE Some(data)

LoadWhole(r, data, checked) ==
    IF IsNone(checked)
    THEN /\ Finish(r, "422")
         /\ UNCHANGED seen
    ELSE /\ pc' = [pc EXCEPT ![r] = At("open", 1)]
         /\ seen' = [seen EXCEPT ![r] = [state |-> "whole", data |-> data,
                                         rules |-> _load_dependency_rules(files)]]
         /\ UNCHANGED <<status, last>>

\* with open(source_path) as f: json.load(f); a file that is not written
\* out is no JSON document and json.load raises
Load(r) ==
    /\ pc[r].at = "load"
    /\ \E data \in {Val(files[SourceOf(RequestKinds[r])])} :
           IF IsIncomplete(data)
           THEN /\ Finish(r, "500")
                /\ seen' = [seen EXCEPT ![r] = [NotRead EXCEPT !.state = "partial"]]
           ELSE LoadWhole(r, data, Eval({Loaded(RequestKinds[r], data)}))
    /\ UNCHANGED <<files, archive, prev, project_finish, partial, request>>

Store(target, content) ==
    /\ files' = IF target.place = "latest"
                THEN [files EXCEPT ![target.name] = Some(content)] ELSE files
    /\ archive' = IF target.place = "archive"
                  THEN [archive EXCEPT ![target.name] = Some(content)] ELSE archive

\* open(path, "w"): the file is created or truncated
OpenAt(r, k, target) ==
    /\ Store(target, Incomplete)
    /\ partial' = partial \cup {<<r, target>>}
    /\ pc' = [pc EXCEPT ![r] = At("close", k)]
    /\ UNCHANGED <<status, last, prev, project_finish, seen, request>>

OpenWrite(r) ==
    /\ pc[r].at = "open"
    /\ OpenAt(r, pc[r].k, WritesOf(RequestKinds[r])[pc[r].k])

SequenceContent(k, duration_records, edges) ==
    IF k <= 2 THEN _build_activity_list_ordered(duration_records, edges) ELSE edges

\* the object the k-th _write_json of the job is given
ContentOf(kind, k, data, rules) ==
    IF kind = "duration" THEN Val(compute_durations(data))
    ELSE Eval({SequenceContent(k, data, edges) : edges \in {compute_sequence(data, rules)}})

CloseAt(r, k, writes, content) ==
    /\ Store(writes[k], content)
    /\ partial' = partial \ {<<r, writes[k]>>}
    /\ IF k = Len(writes)
       THEN Finish(r, "ok")
       ELSE /\ pc' = [pc EXCEPT ![r] = At("open", k + 1)]
            /\ UNCHANGED <<status, last>>
    /\ UNCHANGED <<prev, project_finish, seen, request>>

\* json.dump(obj, f) and the close at the end of the with block
DumpClose(r) ==
    /\ pc[r].at = "close"
    /\ CloseAt(r, pc[r].k, WritesOf(RequestKinds[r]),
               Eval({ContentOf(RequestKinds[r], pc[r].k, seen[r].data, seen[r].rules)}))

ConcBodies ==
    {ArrayBody(SeqItems[2] \o SeqItems[1]),
     ObjectBody(SeqItems[2] \o SeqItems[1] \o SeqItems[4], Deps(RulesCycle))}

ConcDirs ==
    {Dir(EmptyDir, EmptyArchive, "none", 0)}
        \cup {clean_endpoint(EmptyDir, EmptyArchive, body) : body \in ConcBodies}
        \cup {AfterClean(clean_endpoint(EmptyDir, EmptyArchive, body)) : body \in ConcBodies}

InitConc ==
    \E d \in ConcDirs :
        /\ files = d.files
        /\ archive = d.archive
        /\ status = "none"
        /\ last = "none"
        /\ prev = [files |-> EmptyDir, archive |-> EmptyArchive]
        /\ project_finish = 0
        /\ pc = [r \in Requests |-> At("exists", 0)]
        /\ seen = [r \in Requests |-> NotRead]
        /\ partial = {}
        /\ request = None

NextConc ==
    \E r \in Requests :
        \/ Exists(r)
        \/ Load(r)
        \/ OpenWrite(r)
        \/ DumpClose(r)

SpecConc == InitConc /\ [][NextConc]_vars

(***************************************************************************)
(* SpecDur: one Duration request on the working directory left by Clean    *)
(* for a body of up to MaxRecs items of a catalogue of activities of three *)
(* sizes, without geometry, and without a type                             *)
(***************************************************************************)
Cube(side) == Geom(50, 50, 0, side, side, side)

DurItems ==
    <<Item(NameA, Some(Cube(10))), Item(NameC, Some(Cube(20))), Item(NameF, Some(Cube(30))),
      Item(NameA, None), Item(NameB, Some(PumpGeom)), Item(NameB, Some(Cube(30))),
      Item(NameD, Some(PipeGeom)), Item(NameE, Some(LagGeom)), Item(NameU, None),
      Item(NameG, Some(Cube(10))), Item(NameH, Some(Cube(20)))>>

DurBodies ==
    {ArrayBody(Flatten([k \in DOMAIN s |-> DurItems[s[k]]])) :
        s \in UNION {[1..k -> DOMAIN DurItems] : k \in 0..MaxRecs}}

InitDur ==
    \E body \in DurBodies : InitFrom(clean_endpoint(EmptyDir, EmptyArchive, body), "clean")

NextDur == last = "clean" /\ Duration

SpecDur == InitDur /\ [][NextDur]_vars

(***************************************************************************)
(* SpecClean: one Clean request on an empty working directory, its body an *)
(* array of up to MaxRecs raw records: layers (two of them with the same   *)
(* normalized key), solids, and records of another Category/Class          *)
(***************************************************************************)
NameALower == [NameA EXCEPT !.sp = 1]

CleanRecs ==
    <<Layer(NameA), Layer(NameALower), Layer(NameB),
      [Layer(NameC) EXCEPT !.Class = " LAYER "],
      [Layer(NameD) EXCEPT !.Class = "Block"],
      Solid(NameA, SlabGeom),
      [Solid(NameB, PumpGeom) EXCEPT !.Class = "3d solid"],
      [Solid(NameC, HighGeom) EXCEPT !.ElementName = Some(NameC), !.GUID = Some("C")],
      [Solid(NameA, SlabGeom) EXCEPT !.geom = None],      \* no "AutoCAD Geometry." key
      Solid(NameA, HighGeom)>>

CleanBodies ==
    {ArrayBody([k \in DOMAIN s |-> CleanRecs[s[k]]]) :
        s \in UNION {[1..k -> DOMAIN CleanRecs] : k \in 0..MaxRecs}}

InitClean == Init

NextClean == \E body \in CleanBodies : last = "none" /\ Clean(body)

SpecClean == InitClean /\ [][NextClean]_vars

(***************************************************************************)
(* Properties of the pipeline                                              *)
(***************************************************************************)
NoExtras == [shape |-> "array", activities |-> <<>>]

\* the record of the Critical output with that id
CpmRecord(cpm, id) == cpm[CHOOSE k \in DOMAIN cpm : cpm[k].ScheduleActivityID = id]

CpmIds(cpm) == {cpm[k].ScheduleActivityID : k \in DOMAIN cpm}

\* every edge of sequence_edges_latest.json is honoured by critical_output_latest.json
EdgesHonoured ==
    \A k \in DOMAIN Val(files["sequence_edges_latest"]) :
        LET e == Val(files["sequence_edges_latest"])[k]
            cpm == Val(files["critical_output_latest"])
        IN  /\ Val(e.ScheduleActivityID) \in CpmIds(cpm)
            /\ Val(e.Predecessor) \in CpmIds(cpm)
            /\ Val(e.Predecessor) \in
                   Range(CpmRecord(cpm, Val(e.ScheduleActivityID)).Predecessors)
            /\ CpmRecord(cpm, Val(e.ScheduleActivityID)).ES
                   >= CpmRecord(cpm, Val(e.Predecessor)).EF

\* C1: when Sequence has emitted an edge p -> c and Critical then runs on that
\* working directory with an empty list of extra activities, the Critical output
\* for c lists p in Predecessors and has ES(c) >= EF(p).
C1_CpmOverSequenceNetwork ==
    [][(Critical(NoExtras) /\ status' = "ok" /\ ~IsNone(files["sequence_edges_latest"]))
          => EdgesHonoured']_vars

\* C5: Duration invoked while clean_output_latest.json is absent, Sequence invoked
\* while duration_output_latest.json is absent and Critical invoked while
\* sequence_output_latest.json is absent each end with not-found and write nothing.
C5_FailFast ==
    [][/\ (last' = "duration" /\ IsNone(files["clean_output_latest"]))
            => (status' = "404" /\ files' = files /\ archive' = archive)
       /\ (last' = "sequence" /\ IsNone(files["duration_output_latest"]))
            => (status' = "404" /\ files' = files /\ archive' = archive)
       /\ (last' = "critical" /\ IsNone(files["sequence_output_latest"]))
            => (status' = "404" /\ files' = files /\ archive' = archive)]_vars

\* Sequence was refused for want of the Duration output although Clean had run
C5_Witness ==
    /\ last = "sequence" /\ status = "404"
    /\ ~IsNone(files["clean_output_latest"])
    /\ IsNone(files["duration_output_latest"])
    /\ files = prev.files /\ archive = prev.archive

\* C6: when a stage invocation ends in an error, every *_latest artifact, including
\* clean_input_latest.json, has the content it had before that invocation.
C6_ErrorLeavesLatestUntouched ==
    status \in {"404", "422"} =>
        \A n \in FileNames \ {"dependency_rules"} : files[n] = prev.files[n]

LatestOf(stage) ==
    CASE stage = "clean" -> "clean_output_latest"
      [] stage = "duration" -> "duration_output_latest"
      [] stage = "sequence" -> "sequence_output_latest"
      [] stage = "critical" -> "critical_output_latest"

KindOf(stage) ==
    CASE stage = "clean" -> "clean_output"
      [] stage = "duration" -> "duration_output"
      [] stage = "sequence" -> "sequence_output"
      [] stage = "critical" -> "critical_output"

\* C7: every successful invocation of each of the four stages rewrites that stage's
\* *_latest output artifact and writes a copy of the same content into archive/.
C7_SuccessWritesLatestAndArchive ==
    (status = "ok" /\ last \in {"clean", "duration", "sequence", "critical"}) =>
        /\ ~IsNone(files[LatestOf(last)])
        /\ archive[KindOf(last)] = files[LatestOf(last)]

(***************************************************************************)
(* Properties of Sequence                                                  *)
(***************************************************************************)
SeqOk == last = "sequence" /\ status = "ok"

Recs == Val(files["duration_output_latest"])
Edges == Val(files["sequence_edges_latest"])
Nodes == Val(files["sequence_output_latest"])

\* curr_min_z lies in the window (pred_max_z - th_low, pred_max_z + th_up)
InWindow(a, b, vert) ==
    /\ ~IsNone(a.MaxOfMaxZ) /\ ~IsNone(b.MinOfMinZ)
    /\ Val(a.MaxOfMaxZ) - vert[1] < Val(b.MinOfMinZ)
    /\ Val(b.MinOfMinZ) < Val(a.MaxOfMaxZ) + vert[2]

\* the overlap of the two boxes over the smaller box area is at least horiz / 10
OverlapAtLeast(a, b, horiz) ==
    /\ ~IsNone(_get_box(a)) /\ ~IsNone(_get_box(b))
    /\ LET ov == _area_overlap_ratio(Val(_get_box(b)), Val(_get_box(a)))
       IN  10 * ov[1] >= horiz * ov[2]

EdgeSatisfiesRule(e, a, b) ==
    /\ a.ElementName = e.Predecessor /\ b.ElementName = e.ScheduleActivityID
    /\ CwaKey(a) # "" /\ CwaKey(a) = CwaKey(b)
    /\ \E r \in Range(RuleList(files["dependency_rules"], b.Type)) :
          /\ r = e.rule
          /\ _norm_type(a.Type) = _norm_type(r.type)
          /\ OverlapAtLeast(a, b, r.horiz)
          /\ ~IsNone(r.vert) => InWindow(a, b, r.vert)

\* C2: every edge emitted by Sequence (predecessor a, successor b) has a and b in
\* the same non-empty CWA, Type(a) in the effective allowed-predecessor list of
\* Type(b) (types compared as _norm_type compares them), a 2D overlap ratio of at
\* least the rule's horiz threshold and, when the rule has a vert pair,
\* a.MaxOfMaxZ - th_low < b.MinOfMinZ < a.MaxOfMaxZ + th_up.
C2_EdgesSatisfyRules ==
    SeqOk => \A k \in DOMAIN Edges :
                 EdgeSatisfiesRule(Edges[k], Recs[Edges[k].pred], Recs[Edges[k].cur])

\* an edge under a rule with a vert pair, while another record of the allowed type
\* in the same CWA was turned down
C2_Witness ==
    /\ SeqOk
    /\ \E k \in DOMAIN Edges :
          /\ ~IsNone(Edges[k].rule.vert)
          /\ \E j \in DOMAIN Recs :
                /\ j # Edges[k].cur
                /\ CwaKey(Recs[j]) = CwaKey(Recs[Edges[k].cur])
                /\ _norm_type(Recs[j].Type) = _norm_type(Edges[k].rule.type)
                /\ ~Passes(Recs, Edges[k].cur, j, Edges[k].rule)

NameSet == {Val(Nodes[k].ScheduleActivityID) : k \in DOMAIN Nodes}

EdgePairs ==
    {<<Val(Edges[k].Predecessor), Val(Edges[k].ScheduleActivityID)>> : k \in DOMAIN Edges}

RECURSIVE Perms(_)
\* the orders of the elements of S
Perms(S) ==
    IF S = {} THEN {<<>>}
    ELSE UNION {{<<x>> \o p : p \in Perms(S \ {x})} : x \in S}

PosIn(p, n) == CHOOSE k \in DOMAIN p : p[k] = n

\* the topological orders of the graph (S, E)
TopoOrders(S, E) == {p \in Perms(S) : \A e \in E : PosIn(p, e[1]) < PosIn(p, e[2])}

Emitted == [k \in DOMAIN Nodes |-> Val(Nodes[k].ScheduleActivityID)]

\* C3: whenever the emitted edge set is acyclic, for every edge the predecessor's
\* node appears earlier in the node list than the successor's node.
C3_LinearExtension ==
    (SeqOk /\ TopoOrders(NameSet, EdgePairs) # {}) =>
        \A e \in EdgePairs : PosIn(Emitted, e[1]) < PosIn(Emitted, e[2])

\* an acyclic edge set with an edge whose successor comes first in the input
C3_Witness ==
    /\ SeqOk
    /\ TopoOrders(NameSet, EdgePairs) # {}
    /\ \E e \in EdgePairs : index_by_name(Recs, e[2]) < index_by_name(Recs, e[1])

\* C9: for every activity and every predecessor type of its effective rule list
\* Sequence emits at most one edge into that activity for that type; the chosen
\* predecessor is a different record of the same CWA group.
C9_OnePredecessorPerType ==
    SeqOk =>
        /\ \A i \in DOMAIN Recs :
              \A r \in Range(RuleList(files["dependency_rules"], Recs[i].Type)) :
                  Cardinality({k \in DOMAIN Edges :
                                  /\ Edges[k].cur = i
                                  /\ _norm_type(Edges[k].rule.type) = _norm_type(r.type)}) <= 1
        /\ \A k \in DOMAIN Edges :
              /\ Edges[k].pred # Edges[k].cur
              /\ CwaKey(Recs[Edges[k].pred]) = CwaKey(Recs[Edges[k].cur])
              /\ CwaKey(Recs[Edges[k].cur]) # ""

\* an edge chosen among two candidates that both pass the rule, and a record whose
\* own type is among its allowed predecessor types
C9_Witness ==
    /\ SeqOk
    /\ \E k \in DOMAIN Edges :
          \E j \in DOMAIN Recs :
              /\ j # Edges[k].pred
              /\ CwaKey(Recs[j]) = CwaKey(Recs[Edges[k].cur])
              /\ Passes(Recs, Edges[k].cur, j, Edges[k].rule)
    /\ \E i \in DOMAIN Recs :
          \E r \in Range(RuleList(files["dependency_rules"], Recs[i].Type)) :
              _norm_type(r.type) = _norm_type(Recs[i].Type)

IndexSeq(p) == [k \in DOMAIN p |-> index_by_name(Recs, p[k])]

RECURSIVE LexLeq(_, _)
\* p <= q in lexicographic order
LexLeq(p, q) ==
    IF p = <<>> THEN TRUE
    ELSE IF q = <<>> THEN FALSE
    ELSE IF Head(p) # Head(q) THEN Head(p) < Head(q)
    ELSE LexLeq(Tail(p), Tail(q))

CpmOk == last = "critical" /\ status = "ok"

Cpm == Val(files["critical_output_latest"])

MaxEF == SetMax({Cpm[k].EF : k \in DOMAIN Cpm})
MaxLF == SetMax({Cpm[k].LF : k \in DOMAIN Cpm})

\* an activity that no activity lists among its Predecessors
HasSink ==
    \E k \in DOMAIN Cpm :
        \A j \in DOMAIN Cpm : Cpm[k].ScheduleActivityID \notin Range(Cpm[j].Predecessors)

\* two activities that list each other, or one that lists itself
HasCycle ==
    \E k, j \in DOMAIN Cpm :
        /\ Cpm[k].ScheduleActivityID \in Range(Cpm[j].Predecessors)
        /\ Cpm[j].ScheduleActivityID \in Range(Cpm[k].Predecessors)

\* C4 as stated: for every CPM result of Critical (any merged activity set,
\* including extras), the project finish equals the maximum EF over all nodes and
\* also equals the maximum LF over all nodes.
C4_FinishIsMaxEfMaxLf_AnySet ==
    (CpmOk /\ Cpm # <<>>) => (project_finish = MaxEF /\ project_finish = MaxLF)

\* C4 amended: for every CPM result of Critical over a non-empty merged activity
\* set without negative durations in which at least one activity has no successor
\* (every non-empty acyclic network has one), the project finish equals the
\* maximum EF over all nodes and also equals the maximum LF over all nodes.
C4_FinishIsMaxEfMaxLf ==
    (/\ CpmOk /\ Cpm # <<>>
     /\ \A k \in DOMAIN Cpm : Cpm[k].Duration >= 0
     /\ HasSink) => (project_finish = MaxEF /\ project_finish = MaxLF)

\* a network of the sequence nodes and an extra activity, with a cycle and a sink
C4_Witness ==
    /\ CpmOk /\ Cpm # <<>>
    /\ \A k \in DOMAIN Cpm : Cpm[k].Duration >= 0
    /\ HasSink /\ HasCycle
    /\ NameZ \in CpmIds(Cpm)
    /\ project_finish > 0

(***************************************************************************)
(* Properties of concurrent requests (SpecConc)                            *)
(***************************************************************************)
\* r has opened its first artifact for writing and has not closed its last
InWrites(r) == pc[r].at = "close" \/ (pc[r].at = "open" /\ pc[r].k > 1)

\* C8: requests running concurrently on one working directory are
\* serialized: no two requests are inside their artifact writes at the same
\* time, and no request has read a *_latest file that was not written out
\* (a reader sees a completely written file or not-found).
C8_SerializedPerDirectory ==
    /\ \A r1, r2 \in Requests : InWrites(r1) /\ InWrites(r2) => r1 = r2
    /\ \A r \in Requests : seen[r].state # "partial"

(***************************************************************************)
(* Properties of Duration (SpecDur)                                        *)
(***************************************************************************)
DurOk == last = "duration" /\ status = "ok"

Cleaned == Val(files["clean_output_latest"])
Enriched == Val(files["duration_output_latest"])

\* C11: whenever Duration succeeds, its output has as many records as the
\* Clean output, in the same order with the same Element Name values, and
\* every output record has an integer Duration >= 1.
C11_DurationPreservesRecords ==
    DurOk =>
        /\ Len(Enriched) = Len(Cleaned)
        /\ \A k \in DOMAIN Enriched :
              /\ Enriched[k].ElementName = Cleaned[k].ElementName
              /\ Enriched[k].Duration \in Nat
              /\ Enriched[k].Duration >= 1

\* a successful Duration on three records with three different durations
C11_Witness ==
    /\ DurOk
    /\ Len(Enriched) = 3
    /\ Cardinality({Enriched[k].Duration : k \in DOMAIN Enriched}) = 3
    /\ \E k \in DOMAIN Enriched : Enriched[k].Duration = 1

\* ceil(max(1, base * factor * 1.5)) for base2 = 2 * base and factor = 1/fden
DaysAtMedian(base2, fden) == SetMin({n \in 1..(3 * base2) : 3 * base2 <= 4 * fden * n})

ConcreteFactor(t) == IF t = "Concrete" THEN 2 ELSE 1

\* the k-th record is no Set_* activity, has type t, and its metric is the median
\* of the metrics of the activities of type t
AtMedian(k, t) ==
    /\ ~_is_set_activity(Cleaned[k].ElementName)
    /\ Enriched[k].Type = t
    /\ 2 * MetricOf(t, Cleaned[k]) = _median(TypeMetricValues(Cleaned, t))

Once(ids, v) == Cardinality({k \in DOMAIN ids : ids[k] = v}) = 1

ExactlyOnce(ids, S) == Len(ids) = Cardinality(S) /\ \A v \in S : Once(ids, v)

\* the Element Names of the duration records, the ids of the sequence nodes
RecordNames ==
    {Val(Recs[k].ElementName) : k \in {j \in DOMAIN Recs : ~IsNone(Recs[j].ElementName)}}

\* the string ids of the extra activities of the last request
ExtraIdsOf(body) ==
    {Val(body.activities[k].ScheduleActivityID) :
        k \in {j \in DOMAIN body.activities : ~IsNone(body.activities[j].ScheduleActivityID)}}

CpmFieldsSet(t) ==
    /\ {t.ES, t.EF, t.LS, t.LF, t.Float} \subseteq Int
    /\ t.Critical \in BOOLEAN

\* the Sequence edges, or the Predecessors of the CPM result, hold a cycle
SeqCycle == TopoOrders(NameSet, EdgePairs) = {}

\* C13: a cycle in the predecessor graph is never fatal.  For every edge set
\* and every Predecessors assignment, cycles and self-loops included, Sequence
\* and Critical complete; every distinct Element Name is exactly one sequence
\* node, and every distinct activity id of the sequence nodes and the extras is
\* exactly one record of the CPM result, with ES, EF, LS, LF, Float and Critical
\* set.
C13_CyclesNotFatal ==
    /\ SeqOk => ExactlyOnce(Emitted, RecordNames)
    /\ (CpmOk /\ ~IsNone(request)) =>
          /\ ExactlyOnce([k \in DOMAIN Cpm |-> Cpm[k].ScheduleActivityID],
                         NameSet \cup ExtraIdsOf(Val(request)))
          /\ \A k \in DOMAIN Cpm : CpmFieldsSet(Cpm[k])

\* a CPM result over cyclic Sequence edges, with an extra activity that lists
\* itself and another activity that lists it
C13_Witness ==
    /\ CpmOk
    /\ SeqCycle
    /\ \E k, j \in DOMAIN Cpm :
          /\ k # j
          /\ Cpm[k].ScheduleActivityID \in Range(Cpm[k].Predecessors)
          /\ Cpm[k].ScheduleActivityID \in Range(Cpm[j].Predecessors)

(***************************************************************************)
(* Properties of Critical in the pipeline (Spec)                           *)
(***************************************************************************)
\* C14: Critical is idempotent.  A Critical request that follows a successful
\* Critical request with the same extra activities (the sequence artifact is
\* the same, Critical does not write it) succeeds with the same result and
\* leaves critical_output_latest.json, and the whole working directory, with
\* the same content.
C14_CriticalIdempotent ==
    [][(/\ last = "critical" /\ status = "ok"
        /\ last' = "critical" /\ request' = request)
       => (/\ status' = "ok"
           /\ files' = files
           /\ project_finish' = project_finish)]_vars

\* a successful Critical with two extra activities on a directory that held the
\* same CPM result before the request
C14_Witness ==
    /\ CpmOk
    /\ ~IsNone(request) /\ Len(Val(request).activities) = 2
    /\ prev.files["critical_output_latest"] = files["critical_output_latest"]

(***************************************************************************)
(* Properties of Clean (SpecClean)                                         *)
(***************************************************************************)
CleanOk == last = "clean" /\ status = "ok"

RawRecords == Val(request).data
CleanOutput == Val(files["clean_output_latest"])

\* the positions of the layer records of the body
LayerSet == {k \in DOMAIN RawRecords : NormClass(RawRecords[k].Class) = "layer"}

\* the position among the layers of the layer at position i
LayerRank(i) == Cardinality({j \in LayerSet : j <= i})

LayerKey(k) == _norm_key(_layer_key_from_record(RawRecords[k]))

UniqueKey(i) == \A j \in LayerSet : LayerKey(j) = LayerKey(i) => j = i

\* the output record is the one of that layer: its Element Name and GUID
FromLayer(out, i) ==
    /\ out.ElementName = RawRecords[i].ElementName
    /\ out.GUID = RawRecords[i].GUID

\* C15: Clean emits exactly one output record for each input layer record whose
\* normalized layer key is unique among the layers, in input layer order, and
\* emits no record that originates from a 3D-solid record or from a record of
\* another Category/Class: the output is as long as the layers are many, the
\* record at the rank of a layer is the record of that layer, and a layer with
\* a unique key is the origin of no other record.
C15_OneRecordPerLayer ==
    CleanOk =>
        /\ Len(CleanOutput) = Cardinality(LayerSet)
        /\ \A i \in LayerSet :
              /\ FromLayer(CleanOutput[LayerRank(i)], i)
              /\ UniqueKey(i) =>
                    \A k \in DOMAIN CleanOutput : FromLayer(CleanOutput[k], i) => k = LayerRank(i)

\* a body with a solid before two layers of unique keys and a record of another
\* class
C15_Witness ==
    /\ CleanOk
    /\ Cardinality(LayerSet) = 2
    /\ \A i \in LayerSet : UniqueKey(i)
    /\ \E k \in DOMAIN RawRecords : k \notin LayerSet /\ \E i \in LayerSet : k < i
    /\ \E k \in DOMAIN RawRecords : ~IsNone(RawRecords[k].ElementName) /\ k \notin LayerSet

(***************************************************************************)
(* Properties of the candidate selection (SpecSeq)                         *)
(***************************************************************************)
\* the candidates of record i under a rule: the records of its CWA group that
\* pass every configured check
PassingSet(i, rule) ==
    {j \in DOMAIN Recs : CwaKey(Recs[j]) = CwaKey(Recs[i]) /\ Passes(Recs, i, j, rule)}

\* the score a is higher than the score b (scores are exact fractions)
Higher(a, b) == a[1] * b[2] > b[1] * a[2]

\* candidate j is at least as good as candidate j2: a higher score, or the same
\* score and no later in input order
Beats(i, j, j2, rule) ==
    \/ Higher(Score(Recs, i, j, rule), Score(Recs, i, j2, rule))
    \/ /\ ~Higher(Score(Recs, i, j2, rule), Score(Recs, i, j, rule))
       /\ j <= j2

\* C16: within one rule Sequence selects, among the candidates that pass all
\* configured checks, the one with the highest score (overlap ratio, minus
\* |current.MinOfMinZ - pred.MaxOfMaxZ| when the rule has a vert pair); among
\* several candidates of the highest score the first in input order within the
\* CWA group is selected.
C16_BestCandidate ==
    SeqOk =>
        /\ \A k \in DOMAIN Edges :
              /\ Edges[k].pred \in PassingSet(Edges[k].cur, Edges[k].rule)
              /\ \A j2 \in PassingSet(Edges[k].cur, Edges[k].rule) :
                    Beats(Edges[k].cur, Edges[k].pred, j2, Edges[k].rule)
        /\ \A i \in {n \in DOMAIN Recs : CwaKey(Recs[n]) # ""} :
              \A r \in Range(RuleList(files["dependency_rules"], Recs[i].Type)) :
                  PassingSet(i, r) # {} =>
                      \E k \in DOMAIN Edges : Edges[k].cur = i /\ Edges[k].rule = r

\* an edge whose predecessor has a higher score than an earlier candidate that
\* passes too
C16_Witness ==
    /\ SeqOk
    /\ \E k \in DOMAIN Edges :
          \E j2 \in PassingSet(Edges[k].cur, Edges[k].rule) :
              /\ j2 < Edges[k].pred
              /\ Higher(Score(Recs, Edges[k].cur, Edges[k].pred, Edges[k].rule),
                              Score(Recs, Edges[k].cur, j2, Edges[k].rule))

(***************************************************************************)
(* Properties of the rule list (SpecSeq)                                   *)
(***************************************************************************)
UserRules == files["dependency_rules"]

\* the items of the user's object that are a list entry for the type t
ListEntries(t) ==
    IF IsNone(UserRules) THEN {}
    ELSE {k \in DOMAIN Val(UserRules) :
             /\ Val(UserRules)[k].islist
             /\ _norm_type(Val(UserRules)[k].key) = _norm_type(t)}

EntryPreds(t) == Val(UserRules)[CHOOSE k \in ListEntries(t) : TRUE].preds

\* the positions of a predecessor-type list that hold a type for the first time
Firsts(preds) ==
    {k \in DOMAIN preds : \A j \in 1..(k - 1) : _norm_type(preds[j]) # _norm_type(preds[k])}

\* the pairs of the default table for (current type t, predecessor type p)
TablePairs(t, p) ==
    {r \in Range(default_rules(t)) : _norm_type(r.type) = _norm_type(p)}

\* the rule is the one the pair (t, p) stands for
PairRule(rule, t, p) ==
    /\ _norm_type(rule.type) = _norm_type(p)
    /\ IF TablePairs(t, p) # {}
       THEN \E r \in TablePairs(t, p) : rule.horiz = r.horiz /\ rule.vert = r.vert
       ELSE rule.horiz = 8 /\ rule.vert = None

ListedRules(rule_list, t, preds) ==
    /\ Len(rule_list) = Cardinality(Firsts(preds))
    /\ \A k \in Firsts(preds) :
          PairRule(rule_list[Cardinality({j \in Firsts(preds) : j <= k})], t, preds[k])

\* C17: when the user's dependency-rules object has a list entry for the type of
\* the current activity, the effective rule list is that entry's predecessor
\* types in listed order and nothing else (an empty list gives no rule, so no
\* predecessor); each pair takes horiz and vert from the pair of the default
\* table when there is one and is horiz 0.8 without a vertical check otherwise;
\* a type without a list entry uses the default list.  Every edge comes from a
\* rule of the effective list.
C17_EffectiveRuleList ==
    SeqOk =>
        /\ \A i \in DOMAIN Recs :
              IF ListEntries(Recs[i].Type) # {}
              THEN ListedRules(RuleList(UserRules, Recs[i].Type), Recs[i].Type,
                               EntryPreds(Recs[i].Type))
              ELSE RuleList(UserRules, Recs[i].Type) = default_rules(Recs[i].Type)
        /\ \A k \in DOMAIN Edges :
              LET t == Recs[Edges[k].cur].Type
              IN  IF ListEntries(t) # {}
                  THEN \E n \in DOMAIN EntryPreds(t) :
                          /\ PairRule(Edges[k].rule, t, EntryPreds(t)[n])
                          /\ _norm_type(Recs[Edges[k].pred].Type)
                                 = _norm_type(EntryPreds(t)[n])
                  ELSE Edges[k].rule \in Range(default_rules(t))

\* under a user's object: an activity whose default predecessor is there and
\* passes the default rule but is not listed, so that it gets no such edge, and an
\* edge of a listed pair that the default table does not have
C17_Witness ==
    /\ SeqOk
    /\ \E i, j \in DOMAIN Recs :
          /\ ListEntries(Recs[i].Type) # {}
          /\ CwaKey(Recs[i]) = CwaKey(Recs[j])
          /\ \E r \in Range(default_rules(Recs[i].Type)) : Passes(Recs, i, j, r)
          /\ \A k \in DOMAIN Edges : ~(Edges[k].cur = i /\ Edges[k].pred = j)
    /\ \E k \in DOMAIN Edges :
          /\ ListEntries(Recs[Edges[k].cur].Type) # {}
          /\ TablePairs(Recs[Edges[k].cur].Type, Edges[k].rule.type) = {}
          /\ Edges[k].rule.horiz = 8 /\ Edges[k].rule.vert = None

(***************************************************************************)
(* Properties of the name normalization (SpecSeq)                          *)
(***************************************************************************)
\* trim, case-fold and collapse the runs of internal whitespace
Collapsed(s) ==
    IF s = "Piping  Insulation" THEN "piping insulation" ELSE _norm_type(s)

SameName(a, b) == Collapsed(a) = Collapsed(b)

\* C18: keys of the dependency rules and predecessor type names are matched
\* under one normalization that trims, case-folds and collapses internal
\* whitespace: a listed predecessor type matches every candidate whose Type is
\* the same name up to case and whitespace (so a candidate that passes the
\* rule's geometric checks gives an edge), and a predecessor-type list holds no
\* two spellings of one name after deduplication.
C18_OneNormalization ==
    SeqOk =>
        \A i \in {n \in DOMAIN Recs : CwaKey(Recs[n]) # ""} :
            /\ \A r \in Range(RuleList(UserRules, Recs[i].Type)) :
                  \A j \in DOMAIN Recs :
                      /\ CwaKey(Recs[j]) = CwaKey(Recs[i])
                      /\ SameName(Recs[j].Type, r.type)
                      /\ Passes(Recs, i, j, [r EXCEPT !.type = Recs[j].Type])
                      => \E k \in DOMAIN Edges :
                            /\ Edges[k].cur = i
                            /\ SameName(Recs[Edges[k].pred].Type, r.type)
            /\ \A m, n \in DOMAIN RuleList(UserRules, Recs[i].Type) :
                  SameName(RuleList(UserRules, Recs[i].Type)[m].type,
                           RuleList(UserRules, Recs[i].Type)[n].type) => m = n

(***************************************************************************)
(* Properties of the merge (SpecCpm)                                       *)
(***************************************************************************)
BaseList == Val(files["sequence_output_latest"])

ExtraList == Val(request).activities

Merged == _merge_activities(BaseList, ExtraList)

BaseIds == {BaseList[k].ScheduleActivityID : k \in DOMAIN BaseList}

\* the extra records of one id
ExtrasOf(id) == {k \in DOMAIN ExtraList : ExtraList[k].ScheduleActivityID = id}

\* the elements of seq at the positions S, in order
Pick(seq, S) ==
    [n \in 1..Cardinality(S) |->
        seq[CHOOSE k \in S : Cardinality({j \in S : j <= k}) = n]]

\* the extra records that bring an id for the first time
NewFirsts ==
    {k \in DOMAIN ExtraList :
        /\ ~IsNone(ExtraList[k].ScheduleActivityID)
        /\ ExtraList[k].ScheduleActivityID \notin BaseIds
        /\ \A j \in 1..(k - 1) : ExtraList[j].ScheduleActivityID # ExtraList[k].ScheduleActivityID}

ExpectedIds ==
    [k \in DOMAIN BaseList |-> BaseList[k].ScheduleActivityID]
        \o Pick([k \in DOMAIN ExtraList |-> ExtraList[k].ScheduleActivityID], NewFirsts)

\* what an id starts from: its base record, or the defaults of a new id
StartOf(id) ==
    IF id \in BaseIds
    THEN [BaseList[CHOOSE k \in DOMAIN BaseList : BaseList[k].ScheduleActivityID = id]
              EXCEPT !.Predecessors = IF IsNone(@) THEN Some(<<>>) ELSE @]
    ELSE Activity(id, None, None, None, Some("Construct"), Some(<<>>))

\* a field: the last non-null value the extras give, else the start value
ExpectedField(id, f) ==
    IF \E k \in ExtrasOf(id) : ~IsNone(ExtraList[k][f])
    THEN ExtraList[SetMax({k \in ExtrasOf(id) : ~IsNone(ExtraList[k][f])})][f]
    ELSE StartOf(id)[f]

\* the predecessors the extras of an id list, in order
ListedBy(id) ==
    Flatten([k \in DOMAIN ExtraList |->
                IF k \in ExtrasOf(id) /\ ~IsNone(ExtraList[k].Predecessors)
                THEN Val(ExtraList[k].Predecessors) ELSE <<>>])

\* the start list followed by the listed predecessors not already present
ExpectedPreds(start, listed) ==
    start \o Pick(listed, {k \in DOMAIN listed :
                              /\ listed[k] \notin Range(start)
                              /\ \A j \in 1..(k - 1) : listed[j] # listed[k]})

\* C19: the merge of Critical keys activities by ScheduleActivityID: the merged
\* list holds each id exactly once, the base ids first in base order, then the
\* new ids of the extras in extra order; Type, Duration, CWA and TaskType of a
\* base id are overwritten only by non-null values of the extras, and its
\* Predecessors are the base list followed by the extras' predecessors not
\* already present; a new id gets TaskType "Construct" and Predecessors [] when
\* its extra record has none.  The CPM result carries these fields.
C19_MergeById ==
    CpmOk =>
        /\ [k \in DOMAIN Merged |-> Merged[k].ScheduleActivityID] = ExpectedIds
        /\ \A m, n \in DOMAIN Merged :
              Merged[m].ScheduleActivityID = Merged[n].ScheduleActivityID => m = n
        /\ \A k \in DOMAIN Merged :
              /\ \A f \in {"Type", "Duration", "CWA", "TaskType"} :
                    Merged[k][f] = ExpectedField(Merged[k].ScheduleActivityID, f)
              /\ Merged[k].Predecessors =
                    Some(ExpectedPreds(Val(StartOf(Merged[k].ScheduleActivityID).Predecessors),
                                       ListedBy(Merged[k].ScheduleActivityID)))
        /\ Len(Cpm) = Len(Merged)
        /\ \A k \in DOMAIN Cpm :
              \E m \in DOMAIN Merged :
                  /\ Merged[m].ScheduleActivityID = Some(Cpm[k].ScheduleActivityID)
                  /\ Cpm[k].Type = Merged[m].Type
                  /\ Cpm[k].CWA = Merged[m].CWA
                  /\ Cpm[k].TaskType = Merged[m].TaskType
                  /\ Cpm[k].Predecessors = Val(Merged[m].Predecessors)

\* an extra record of a base id with a Duration and no Type (the Duration is
\* taken, the Type of the base kept), a second extra record of that id that
\* adds a predecessor, and a new id that gets the defaults
C19_Witness ==
    /\ CpmOk
    /\ \E k \in DOMAIN ExtraList, m \in DOMAIN Merged :
          /\ ExtraList[k].ScheduleActivityID \in BaseIds
          /\ Merged[m].ScheduleActivityID = ExtraList[k].ScheduleActivityID
          /\ IsNone(ExtraList[k].Type) /\ ~IsNone(Merged[m].Type)
          /\ ~IsNone(ExtraList[k].Duration) /\ Merged[m].Duration = ExtraList[k].Duration
    /\ \/ \E m \in DOMAIN Merged : Len(Val(Merged[m].Predecessors)) = 2
       \/ \E m \in DOMAIN Merged :
             /\ Merged[m].ScheduleActivityID \notin BaseIds
             /\ Merged[m].TaskType = Some("Construct")
             /\ Merged[m].Predecessors = Some(<<>>)

(***************************************************************************)
(* Properties of the order of the CPM result (SpecCpm)                     *)
(***************************************************************************)
ResultIds == {Cpm[k].ScheduleActivityID : k \in DOMAIN Cpm}

CpmOrder == [k \in DOMAIN Cpm |-> Cpm[k].ScheduleActivityID]

\* the predecessors of an id that are ids of the result
KnownPreds(id) ==
    Range(Cpm[CHOOSE k \in DOMAIN Cpm : Cpm[k].ScheduleActivityID = id].Predecessors)
        \cap ResultIds

RECURSIVE Grow(_)
\* the ids that can be ordered: all of their known predecessors can be
Grow(S) ==
    IF \E n \in ResultIds \ S : KnownPreds(n) \subseteq S
    THEN Grow(S \cup {n \in ResultIds : KnownPreds(n) \subseteq S})
    ELSE S

Orderable == Grow({})

\* the arrangements of the ids S in which every id comes after its known
\* predecessors
TopOrders(S) ==
    {f \in [1..Cardinality(S) -> S] :
        /\ \A i, j \in DOMAIN f : f[i] = f[j] => i = j
        /\ \A i \in DOMAIN f : \A p \in KnownPreds(f[i]) : \E j \in 1..(i - 1) : f[j] = p}

\* a comes before b, or is b, in lexicographic order (sequences of one length)
IdsLexLeq(a, b) ==
    \/ a = b
    \/ \E k \in DOMAIN a :
          /\ StrLess(a[k], b[k])
          /\ \A j \in 1..(k - 1) : a[j] = b[j]

\* C20: Critical orders the activities by Kahn's algorithm with the least ready
\* id first: the ids that can be ordered come first, in the lexicographically
\* smallest topological order (for an acyclic relation that is the whole
\* result); the ids on or behind a cycle follow in ascending order;
\* predecessors that name no activity are ignored.
C20_SmallestTopologicalOrder ==
    CpmOk =>
        /\ SubSeq(CpmOrder, 1, Cardinality(Orderable)) \in TopOrders(Orderable)
        /\ \A f \in TopOrders(Orderable) :
              IdsLexLeq(SubSeq(CpmOrder, 1, Cardinality(Orderable)), f)
        /\ \A m, n \in (Cardinality(Orderable) + 1)..Len(Cpm) :
              m < n => StrLess(CpmOrder[m], CpmOrder[n])

\* an acyclic relation with a predecessor that names no activity and with an
\* id that must come after a greater one
C20_Witness ==
    /\ CpmOk
    /\ Orderable = ResultIds
    /\ \E k \in DOMAIN Cpm : \E p \in Range(Cpm[k].Predecessors) : p \notin ResultIds
    /\ \E m, n \in DOMAIN Cpm : m < n /\ StrLess(CpmOrder[n], CpmOrder[m])
    /\ Cardinality(TopOrders(ResultIds)) > 1

(***************************************************************************)
(* Properties of the CPM values (SpecCpm)                                  *)
(***************************************************************************)
NodeOf(id) == Cpm[CHOOSE k \in DOMAIN Cpm : Cpm[k].ScheduleActivityID = id]

\* the nodes that list id among their predecessors
Successors(id) == {s \in ResultIds : id \in Range(NodeOf(s).Predecessors)}

Acyclic == Orderable = ResultIds

\* the early start of the reference definition
RefES(id) ==
    IF KnownPreds(id) = {} THEN 0 ELSE SetMax({NodeOf(p).EF : p \in KnownPreds(id)})

\* the late finish of the reference definition
RefLF(id) ==
    IF Successors(id) = {} THEN project_finish
    ELSE SetMin({NodeOf(s).ES : s \in Successors(id)})

\* C21: for an acyclic network the CPM values of every node are those of the
\* reference definition: ES is the maximum EF of the known predecessors (0
\* without any), EF = ES + Duration, LF is the minimum ES of the successors
\* (the project finish without any), LS = LF - Duration, Float = LS - ES, and
\* Critical exactly when Float is 0.
C21_CpmReference ==
    CpmOk /\ Acyclic =>
        \A k \in DOMAIN Cpm :
            /\ Cpm[k].ES = RefES(Cpm[k].ScheduleActivityID)
            /\ Cpm[k].EF = Cpm[k].ES + Cpm[k].Duration
            /\ Cpm[k].LF = RefLF(Cpm[k].ScheduleActivityID)
            /\ Cpm[k].LS = Cpm[k].LF - Cpm[k].Duration
            /\ Cpm[k].Float = Cpm[k].LS - Cpm[k].ES
            /\ Cpm[k].Critical = (Cpm[k].Float = 0)

(***************************************************************************)
(* Properties of the failure of Duration (SpecDur)                         *)
(***************************************************************************)
InferredType(k) == _extract_activity_type(Cleaned[k].ElementName)

\* a type without an entry in the install exponent table; "Equipment", the type
\* of the Set_* activities, has its own tables
NoExponentEntry(t) == t \notin InstallTypes \cup {"Equipment"}

\* C22: if any activity of the Clean output has an inferred Type without an
\* entry in the install exponent table (the empty Type of an unclassifiable
\* name included), Duration fails as a whole with a validation error (422) and
\* writes neither duration_output_latest.json nor an archive copy.
C22_MissingExponentFails ==
    /\ last = "duration"
    /\ \E k \in DOMAIN Cleaned : NoExponentEntry(InferredType(k))
    => /\ status = "422"
       /\ files = prev.files
       /\ archive = prev.archive

(***************************************************************************)
(* Properties of the output records of Duration (SpecDur)                  *)
(***************************************************************************)
Positional ==
    {"XCoordinate", "YCoordinate", "ZCoordinate", "PositionX", "PositionY", "PositionZ"}

\* C23: every output record of Duration is its input record with exactly the
\* six fields X/Y/Z Coordinate and Position X/Y/Z removed and Type and Duration
\* added; every other field keeps its value, and the input records (the Clean
\* output) are left as they were.
C23_DurationFrame ==
    DurOk =>
        /\ Len(Enriched) = Len(Cleaned)
        /\ \A k \in DOMAIN Enriched :
              /\ DOMAIN Enriched[k] = (DOMAIN Cleaned[k] \ Positional) \cup {"Type", "Duration"}
              /\ \A f \in DOMAIN Cleaned[k] \ Positional : Enriched[k][f] = Cleaned[k][f]
        /\ files["clean_output_latest"] = prev.files["clean_output_latest"]

\* a record that had all six positional fields, with values, and the fields of
\* its box, which it keeps
C23_Witness ==
    /\ DurOk
    /\ \E k \in DOMAIN Enriched :
          /\ Positional \subseteq DOMAIN Cleaned[k]
          /\ \A f \in Positional : ~IsNone(Cleaned[k][f])
          /\ ~IsNone(Enriched[k].MinOfMinX) /\ ~IsNone(Enriched[k].Volume)
          /\ {"Type", "Duration"} \cap DOMAIN Cleaned[k] = {}

(***************************************************************************)
(* Properties of the pairing of layers and solids (SpecClean)              *)
(***************************************************************************)
\* the positions of the solids of the body that share the key of the layer at i
SolidsOf(i) ==
    {k \in DOMAIN RawRecords :
        /\ NormClass(RawRecords[k].Class) = "3d solid"
        /\ ~IsNone(LayerKey(i))
        /\ LayerKey(k) = LayerKey(i)}

GeomFields == {"PositionX", "PositionY", "PositionZ", "Height", "Length", "Width"}

\* the geometry fields of out are those of the raw record at k (null without any)
GeometryFrom(out, k) ==
    \A f \in GeomFields :
        out[f] = IF IsNone(RawRecords[k].geom) THEN None ELSE Val(RawRecords[k].geom)[f]

\* C24: Clean pairs each layer with the first solid, in input order, that shares
\* its normalized layer key: the geometry of the layer's output record is that
\* of the first such solid, whatever its geometry fields are, and of no later
\* solid.
C24_FirstSolidOnly ==
    CleanOk =>
        \A i \in LayerSet :
            SolidsOf(i) # {} =>
                GeometryFrom(CleanOutput[LayerRank(i)], SetMin(SolidsOf(i)))

(***************************************************************************)
(* Properties of the dependency rules across requests (Spec)               *)
(***************************************************************************)
\* the payload of the most recent Clean request
LatestClean == _coerce_payload(Val(files["clean_input_latest"]))

\* C25: in any sequence of requests the dependency rules Sequence applies are
\* those supplied with the most recent successful Clean request, and the
\* default table when that request supplied none: the edges Sequence writes are
\* those of the duration output under the rules of that request.
C25_RulesOfLatestClean ==
    /\ SeqOk
    /\ ~IsNone(files["clean_input_latest"])
    /\ LatestClean.ok
    => Edges = compute_sequence(Recs, LatestClean.dependencies)

(***************************************************************************)
(* Properties of the choice of the duration model (SpecDur)                *)
(***************************************************************************)
\* the metrics of the activities whose emitted Type is t
MetricsOfType(t) ==
    LET idx == SelectIdx(Cleaned, [k \in DOMAIN Cleaned |-> Enriched[k].Type = t], 1)
    IN  [k \in DOMAIN idx |-> MetricOf(t, Cleaned[idx[k]])]

\* the Equipment model: base days and exponent of the sub-type, the median of
\* the volumes of the Set_* activities, bounds [0.25, 7.0], no Concrete factor
EquipmentDays(rec) ==
    Eval({CeilDays(EQUIP_SUBTYPE_BASE_DAYS(subtype), metric, denom2,
                   EQUIP_SUBTYPE_EXPONENT(subtype), EquipBounds, 1) :
             subtype \in {_classify_module_subtype(rec.ElementName)},
             metric \in {_volume_for_record(rec)},
             denom2 \in {Denom2(_median(SetVols(Cleaned)), 1000)}})

\* the model of the type t: its base days, exponent, metric, bounds and median
InstallDays(rec, t) ==
    Eval({CeilDays(INSTALL_BASE_DAYS(t), metric, denom2, INSTALL_EXPONENTS(t),
                   InstallBounds(t), ConcreteFactor(t)) :
             metric \in {MetricOf(t, rec)},
             denom2 \in {Denom2(_median(MetricsOfType(t)), MetricUnit(t))}})

\* C26: Duration uses the Equipment model for an activity exactly when the Type
\* it emits for it is "Equipment"; an activity whose emitted Type is an Install
\* type or Civil Works is computed with the table entries and the median of
\* that type.
C26_ModelFollowsType ==
    DurOk =>
        \A k \in DOMAIN Enriched :
            /\ Enriched[k].Type = "Equipment" =>
                  Enriched[k].Duration = EquipmentDays(Cleaned[k])
            /\ Enriched[k].Type \in InstallTypes =>
                  Enriched[k].Duration = InstallDays(Cleaned[k], Enriched[k].Type)

(***************************************************************************)
(* Properties of the Critical flag (SpecCpm)                               *)
(***************************************************************************)
NonNegative == \A k \in DOMAIN Cpm : Cpm[k].Duration >= 0

\* C27 as stated: in an acyclic network with non-negative durations every
\* activity marked Critical has EF equal to the project finish or has a
\* successor that is marked Critical too.
C27_CriticalChains_ToFinish ==
    CpmOk /\ Acyclic /\ NonNegative =>
        \A k \in DOMAIN Cpm :
            Cpm[k].Critical =>
                \/ Cpm[k].EF = project_finish
                \/ \E s \in Successors(Cpm[k].ScheduleActivityID) : NodeOf(s).Critical

\* C27 amended: in an acyclic network with non-negative durations every
\* activity marked Critical has EF equal to the project finish or has a
\* successor that starts exactly at its EF; that successor need not be Critical.
C27_CriticalChains ==
    CpmOk /\ Acyclic /\ NonNegative =>
        \A k \in DOMAIN Cpm :
            Cpm[k].Critical =>
                \/ Cpm[k].EF = project_finish
                \/ \E s \in Successors(Cpm[k].ScheduleActivityID) : NodeOf(s).ES = Cpm[k].EF

\* a Critical activity that ends before the project finish and whose only
\* successors have float
C27_Witness ==
    /\ CpmOk /\ Acyclic /\ NonNegative
    /\ \E k \in DOMAIN Cpm :
          /\ Cpm[k].Critical
          /\ Cpm[k].EF < project_finish
          /\ Successors(Cpm[k].ScheduleActivityID) # {}
          /\ \A s \in Successors(Cpm[k].ScheduleActivityID) :
                ~NodeOf(s).Critical /\ NodeOf(s).Float > 0

\* the predecessors of an activity that are activities of the output
KnownPredsAt(k) ==
    {Cpm[k].Predecessors[j] : j \in DOMAIN Cpm[k].Predecessors} \cap ResultIds

\* C28: in an acyclic network with non-negative durations every node of the
\* Critical output has Float >= 0, LF <= project finish and ES >= EF(p) for
\* each known predecessor p, and a non-empty network has a Critical node.
C28_CpmBounds ==
    CpmOk /\ Acyclic /\ NonNegative =>
        /\ \A k \in DOMAIN Cpm :
              /\ Cpm[k].Float >= 0
              /\ Cpm[k].LF <= project_finish
              /\ \A p \in KnownPredsAt(k) : Cpm[k].ES >= NodeOf(p).EF
        /\ Cpm # <<>> => \E k \in DOMAIN Cpm : Cpm[k].Critical

\* a network where one activity waits for a predecessor and one has float
C28_Witness ==
    /\ CpmOk /\ Acyclic /\ NonNegative
    /\ \E k \in DOMAIN Cpm :
          \E p \in KnownPredsAt(k) : NodeOf(p).EF > 0 /\ Cpm[k].ES >= NodeOf(p).EF
    /\ \E k \in DOMAIN Cpm : Cpm[k].Float > 0
    /\ \E k \in DOMAIN Cpm : Cpm[k].Critical

(***************************************************************************)
(* Properties of the default rule table (SpecSeq)                          *)
(***************************************************************************)
\* every duration record has an Element Name and no two records share one
DistinctNames ==
    /\ \A i \in DOMAIN Recs : ~IsNone(Recs[i].ElementName)
    /\ \A i, j \in DOMAIN Recs : i # j => Recs[i].ElementName # Recs[j].ElementName

\* C29: with the default rule table (no user rules) and distinct Element Names
\* the emitted edge set is acyclic: the node list holds every name once and is a
\* topological order of all edges.
C29_DefaultRulesAcyclic ==
    SeqOk /\ IsNone(UserRules) /\ DistinctNames =>
        /\ Len(Emitted) = Len(Recs)
        /\ Emitted \in TopoOrders(RecordNames, EdgePairs)

\* a chain of two default edges whose emitted order is not the input order
C29_Witness ==
    /\ SeqOk /\ IsNone(UserRules) /\ DistinctNames
    /\ \E e, f \in EdgePairs : e[2] = f[1]
    /\ \E k \in DOMAIN Emitted : index_by_name(Recs, Emitted[k]) # k

(***************************************************************************)
(* Properties of the edge count per rule (SpecSeq)                         *)
(***************************************************************************)
\* the named candidates of record i that pass every configured check of a rule
NamedPassing(i, rule) == {j \in PassingSet(i, rule) : ~IsNone(Recs[j].ElementName)}

\* the edges record i emitted under a rule
EdgesFor(i, rule) == {k \in DOMAIN Edges : Edges[k].cur = i /\ Edges[k].rule = rule}

\* best_score = -1.0, the score the scan of the candidates starts from
StartScore == <<-1, 1>>

\* C30: for every activity with a CWA and every rule of its effective rule
\* list, if at least one other named activity of the rule's predecessor type in
\* the same CWA passes the horizontal and (when configured) vertical check,
\* exactly one edge is emitted for that rule; the score of a passing candidate
\* is always above the starting score, so none is left unselected for its score.
C30_OneEdgePerPassingRule ==
    SeqOk =>
        \A i \in {n \in DOMAIN Recs : CwaKey(Recs[n]) # ""} :
            \A r \in Range(RuleList(UserRules, Recs[i].Type)) :
                /\ \A j \in PassingSet(i, r) : Higher(Score(Recs, i, j, r), StartScore)
                /\ NamedPassing(i, r) # {} => Cardinality(EdgesFor(i, r)) = 1

\* an activity with two rules, one of them with a vert pair, that emitted one
\* edge under each
C30_Witness ==
    /\ SeqOk
    /\ \E i \in DOMAIN Recs :
          \E r, r2 \in Range(RuleList(UserRules, Recs[i].Type)) :
              /\ r # r2
              /\ ~IsNone(r.vert)
              /\ NamedPassing(i, r) # {} /\ NamedPassing(i, r2) # {}
              /\ Cardinality(EdgesFor(i, r)) = 1
              /\ Cardinality(EdgesFor(i, r2)) = 1

=============================================================================
